---- MODULE Spec2Model ----
(***************************************************************************)
(* Model of the synchronization backend of KreenoHub/Mateo2:               *)
(*   - the Store (backend_database.py): tables and the sync_events log,    *)
(*   - the Operation Applier and the Sync Coordinator                      *)
(*     ("backend-sync-engine (1).py": _apply_*, process_sync,              *)
(*     get_changes_since),                                                 *)
(*   - the HTTP surface of push and pull (backend_app.py).                 *)
(* Every database statement awaited by a request is one atomic step of     *)
(* that request; requests of different clients interleave between steps.   *)
(*                                                                         *)
(* Python values are represented as follows.  A dict is a record that has  *)
(* exactly the keys that are present (dict.get(k) is None iff k is not in  *)
(* DOMAIN).  A list is a sequence; the Python index i is position i + 1.   *)
(* An Optional value held in a variable is a sequence of length 0 (None)   *)
(* or 1.  A cellMeta entry None is the record NoMeta.                      *)
(***************************************************************************)
EXTENDS Integers, Sequences, FiniteSets, TLC

\* ------------------------------------------------------------------ bounds

\* Client timestamps range over 0..MaxTs.
MaxTs == 2
\* The server clock (datetime.utcnow()) reads 0..MaxClock.
MaxClock == 1
\* Number of push requests plus number of pushed operations in one behaviour.
MaxWork == 5
\* The same budget for the sequential specification, whose menu is large,
MaxSeqWork == 2
\* for the specification of setCell operations on one cell,
MaxLwwWork == 4
\* and for the specification with the pulling client.
MaxPullWork == 4
\* Number of pull requests in one behaviour.
MaxPulls == 2
\* The budget of pushes, pushed operations and resets of the specification
\* with the reset of the store.
MaxStoreWork == 4
\* The budget of the specification of concurrent setCells on one cell.
MaxCellWork == 4
\* The budget of the specification of two setCells on distinct cells.
MaxRaceWork == 4
\* The budget of the specification with storage faults.
MaxFaultWork == 4
\* The budget of the specification of batches of an addRow and a setCell.
MaxBatchWork == 4
\* The budget of the specification of setCell with column operations.
MaxAlignWork == 4
\* The budget of the specification of concurrent addRow and deleteRow.
MaxRowWork == 4
\* The budget of the specification of addColumn on padded rows.
MaxColWork == 3
\* Stands for the default `limit` of get_events_since (100 in the source),
\* scaled down so that a log longer than the limit is reachable.
EventLimit == 2

\* ------------------------------------------------------------------ values

Clients == {"alice", "bob"}

\* Python compares client ids as strings; StrOrder lists the strings used as
\* client ids (and the default "" of meta.get("by", "")) in that order.
StrOrder == <<"", "alice", "bob">>

StrRank(s) == CHOOSE i \in 1..Len(StrOrder) : StrOrder[i] = s

\* a > b on Python strings
StrGreater(a, b) == StrRank(a) > StrRank(b)

\* OperationType
SET_CELL == "setCell"
ADD_ROW == "addRow"
DELETE_ROW == "deleteRow"
ADD_COLUMN == "addColumn"
DELETE_COLUMN == "deleteColumn"
SET_HEADER == "setHeader"
RENAME_TABLE == "renameTable"
DELETE_TABLE == "deleteTable"

\* cellMeta entry None
NoMeta == [present |-> FALSE, value |-> "", ts |-> 0, by |-> ""]

\* cellMeta entry {"value": value, "ts": ts, "by": client_id}
CellMeta(value, ts, by) == [present |-> TRUE, value |-> value, ts |-> ts, by |-> by]

\* dict.get(key) is not None
Has(d, key) == key \in DOMAIN d

\* truthiness of d.get(key) for a string value: present and not ""
Truthy(d, key) == Has(d, key) /\ d[key] # ""

\* ------------------------------------------------------------ Python lists

Min(a, b) == IF a < b THEN a ELSE b

\* list.insert(i, x) for 0 <= i <= len
InsertAt(s, i, x) == SubSeq(s, 1, i) \o <<x>> \o SubSeq(s, i + 1, Len(s))

\* list.pop(i) for 0 <= i < len
PopAt(s, i) == SubSeq(s, 1, i) \o SubSeq(s, i + 2, Len(s))

\* a padding that appends one entry only
PadByOne(s, col, x) ==
  IF Len(s) > col THEN s ELSE Append(s, x)

\* while len(s) <= col: s.append(x)
PadTo(s, col, x) ==
  IF Len(s) > col THEN s ELSE s \o [k \in 1..(col + 1 - Len(s)) |-> x]

\* s[i] is defined (no IndexError): -len <= i < len
InRange(s, i) == IF i >= 0 THEN i < Len(s) ELSE -i <= Len(s)

\* position of the Python index i (negative indices count from the end)
PyPos(s, i) == IF i >= 0 THEN i + 1 ELSE Len(s) + i + 1

\* ------------------------------------------------------- Operation Applier

\* Result of an _apply_* method before its database statement:
\*   "false"  : returns False without writing,
\*   "true"   : returns True without writing,
\*   "update" : returns await db.update_table(table["id"], table),
\*   "delete" : returns await db.delete_table(table_id).
RFalse == [kind |-> "false"]
RTrue == [kind |-> "true"]
RUpdate(table) == [kind |-> "update", table |-> table]
RDelete == [kind |-> "delete"]

\* the comparison without the client tiebreak: an equal timestamp applies
ShouldApplyChangeNoTiebreak(current_meta, remote_ts, remote_client_id) ==
  IF ~current_meta.present \/ current_meta.ts = 0
  THEN TRUE
  ELSE remote_ts >= current_meta.ts

\* the comparison with a tiebreak that lets the same client win again
ShouldApplyChangeTieInclusive(current_meta, remote_ts, remote_client_id) ==
  IF ~current_meta.present \/ current_meta.ts = 0
  THEN TRUE
  ELSE IF remote_ts > current_meta.ts
       THEN TRUE
       ELSE IF remote_ts = current_meta.ts
            THEN ~StrGreater(current_meta.by, remote_client_id)
            ELSE FALSE

ShouldApplyChange(current_meta, remote_ts, remote_client_id) ==
  IF ~current_meta.present \/ current_meta.ts = 0
  THEN TRUE
  ELSE IF remote_ts > current_meta.ts
       THEN TRUE
       ELSE IF remote_ts = current_meta.ts
            THEN StrGreater(remote_client_id, current_meta.by)
            ELSE FALSE

\* The loop `for row in table["rows"]` of _apply_set_cell from row i on.
\* A row that matches but loses the LWW comparison keeps its padding (the
\* lists are mutated in place) and the loop goes on; an IndexError
\* (negative col beyond the list) is caught by _apply_operation: False.
RECURSIVE SetCellLoop(_, _, _, _)
SetCellLoop(table, op, client_id, i) ==
  IF i > Len(table.rows)
  THEN RFalse
  ELSE LET row == table.rows[i] IN
       IF row.rowId # op.rowId
       THEN SetCellLoop(table, op, client_id, i + 1)
       ELSE LET col == op.col
                value == IF Has(op, "value") THEN op.value ELSE ""
                cells == PadTo(row.cells, col, "")
                cell_meta == PadTo(row.cellMeta, col, NoMeta)
            IN IF ~InRange(cell_meta, col)
               THEN RFalse
               ELSE IF ShouldApplyChange(cell_meta[PyPos(cell_meta, col)], op.ts, client_id)
                    THEN IF ~InRange(cells, col)
                         THEN RFalse
                         ELSE RUpdate([table EXCEPT !.rows[i] =
                                [rowId |-> row.rowId,
                                 cells |-> [cells EXCEPT ![PyPos(cells, col)] = value],
                                 cellMeta |-> [cell_meta EXCEPT ![PyPos(cell_meta, col)] =
                                                 CellMeta(value, op.ts, client_id)]]])
                    ELSE SetCellLoop(
                           [table EXCEPT !.rows[i] =
                              [rowId |-> row.rowId, cells |-> cells, cellMeta |-> cell_meta]],
                           op, client_id, i + 1)

\* _apply_set_cell; tbl is the Optional table read by get_table
ApplySetCell(tbl, op, client_id) ==
  IF tbl = <<>> THEN RFalse
  ELSE IF ~Has(op, "rowId") \/ ~Has(op, "col") THEN RFalse
  ELSE SetCellLoop(tbl[1], op, client_id, 1)

RowIds(table) == {table.rows[i].rowId : i \in 1..Len(table.rows)}

\* index (position) of the first row with this rowId
FirstRow(table, rowId) ==
  CHOOSE i \in 1..Len(table.rows) :
    /\ table.rows[i].rowId = rowId
    /\ \A j \in 1..(i - 1) : table.rows[j].rowId # rowId

\* addRow without the check for an existing rowId
ApplyAddRowUnchecked(tbl, op, client_id) ==
  IF tbl = <<>> THEN RFalse
  ELSE IF ~Truthy(op, "rowId") THEN RFalse
  ELSE LET table == tbl[1]
           new_row == [rowId |-> op.rowId,
                       cells |-> [k \in 1..Len(table.headers) |-> ""],
                       cellMeta |-> <<>>]
       IN IF Truthy(op, "afterRowId") /\ op.afterRowId \in RowIds(table)
          THEN RUpdate([table EXCEPT !.rows =
                 InsertAt(table.rows, FirstRow(table, op.afterRowId), new_row)])
          ELSE RUpdate([table EXCEPT !.rows = Append(table.rows, new_row)])

\* addRow that puts the new row at the end whatever afterRowId says
ApplyAddRowAppends(tbl, op, client_id) ==
  IF tbl = <<>> THEN RFalse
  ELSE IF ~Truthy(op, "rowId") THEN RFalse
  ELSE LET table == tbl[1]
           new_row == [rowId |-> op.rowId,
                       cells |-> [k \in 1..Len(table.headers) |-> ""],
                       cellMeta |-> <<>>]
       IN IF op.rowId \in RowIds(table)
          THEN RTrue
          ELSE RUpdate([table EXCEPT !.rows = Append(table.rows, new_row)])

ApplyAddRow(tbl, op, client_id) ==
  IF tbl = <<>> THEN RFalse
  ELSE IF ~Truthy(op, "rowId") THEN RFalse
  ELSE LET table == tbl[1]
           new_row == [rowId |-> op.rowId,
                       cells |-> [k \in 1..Len(table.headers) |-> ""],
                       cellMeta |-> <<>>]
       IN IF op.rowId \in RowIds(table)
          THEN RTrue
          ELSE IF Truthy(op, "afterRowId") /\ op.afterRowId \in RowIds(table)
               THEN RUpdate([table EXCEPT !.rows =
                      InsertAt(table.rows, FirstRow(table, op.afterRowId), new_row)])
               ELSE RUpdate([table EXCEPT !.rows = Append(table.rows, new_row)])

\* deleteRow that fails when no row has the rowId
ApplyDeleteRowStrict(tbl, op, client_id) ==
  IF tbl = <<>> THEN RFalse
  ELSE IF ~Truthy(op, "rowId") THEN RFalse
  ELSE LET table == tbl[1] IN
       IF op.rowId \notin RowIds(table) THEN RFalse
       ELSE RUpdate([table EXCEPT !.rows =
                       SelectSeq(table.rows, LAMBDA r : r.rowId # op.rowId)])

ApplyDeleteRow(tbl, op, client_id) ==
  IF tbl = <<>> THEN RFalse
  ELSE IF ~Truthy(op, "rowId") THEN RFalse
  ELSE LET table == tbl[1] IN
       RUpdate([table EXCEPT !.rows =
                  SelectSeq(table.rows, LAMBDA r : r.rowId # op.rowId)])

\* the default header f"Column {col_index + 1}"
DefaultHeader(col_index) == "Column " \o ToString(col_index + 1)

\* insert at col_index when 0 <= col_index <= len, else append
InsertOrAppend(s, col_index, x) ==
  IF col_index >= 0 /\ col_index <= Len(s)
  THEN InsertAt(s, col_index, x)
  ELSE Append(s, x)

ApplyAddColumn(tbl, op, client_id) ==
  IF tbl = <<>> THEN RFalse
  ELSE LET table == tbl[1]
           col_index == IF Has(op, "colIndex") THEN op.colIndex ELSE Len(table.headers)
           header == IF Has(op, "header") THEN op.header ELSE DefaultHeader(col_index)
       IN RUpdate([table EXCEPT
                    !.headers = InsertOrAppend(table.headers, col_index, header),
                    !.rows = [i \in 1..Len(table.rows) |->
                               [rowId |-> table.rows[i].rowId,
                                cells |-> InsertOrAppend(table.rows[i].cells, col_index, ""),
                                cellMeta |-> InsertOrAppend(table.rows[i].cellMeta,
                                                            col_index, NoMeta)]]])

\* pop at col_index when col_index < len
PopIfInRange(s, col_index) ==
  IF col_index < Len(s) THEN PopAt(s, col_index) ELSE s

\* deleteColumn that removes the header and leaves the rows as they are
ApplyDeleteColumnHeaderOnly(tbl, op, client_id) ==
  IF tbl = <<>> THEN RFalse
  ELSE IF ~Has(op, "colIndex") THEN RFalse
  ELSE LET table == tbl[1]
           col_index == op.colIndex
       IN IF col_index < 0 \/ col_index >= Len(table.headers)
          THEN RFalse
          ELSE RUpdate([table EXCEPT !.headers = PopAt(table.headers, col_index)])

ApplyDeleteColumn(tbl, op, client_id) ==
  IF tbl = <<>> THEN RFalse
  ELSE IF ~Has(op, "colIndex") THEN RFalse
  ELSE LET table == tbl[1]
           col_index == op.colIndex
       IN IF col_index < 0 \/ col_index >= Len(table.headers)
          THEN RFalse
          ELSE RUpdate([table EXCEPT
                    !.headers = PopAt(table.headers, col_index),
                    !.rows = [i \in 1..Len(table.rows) |->
                               [rowId |-> table.rows[i].rowId,
                                cells |-> PopIfInRange(table.rows[i].cells, col_index),
                                cellMeta |-> PopIfInRange(table.rows[i].cellMeta,
                                                          col_index)]]])

ApplySetHeader(tbl, op, client_id) ==
  IF tbl = <<>> THEN RFalse
  ELSE IF ~Has(op, "colIndex") THEN RFalse
  ELSE LET table == tbl[1]
           col_index == op.colIndex
           header == IF Has(op, "header") THEN op.header ELSE ""
       IN IF col_index >= 0 /\ col_index < Len(table.headers)
          THEN RUpdate([table EXCEPT !.headers[col_index + 1] = header])
          ELSE RFalse

\* renameTable that takes the empty name as well
ApplyRenameTableAnyName(tbl, op, client_id) ==
  IF tbl = <<>> THEN RFalse
  ELSE IF ~Has(op, "name") THEN RFalse
  ELSE RUpdate([tbl[1] EXCEPT !.name = op.name])

ApplyRenameTable(tbl, op, client_id) ==
  IF tbl = <<>> THEN RFalse
  ELSE IF ~Truthy(op, "name") THEN RFalse
  ELSE RUpdate([tbl[1] EXCEPT !.name = op.name])

\* The dispatch of _apply_operation on the table read by get_table.
Dispatch(tbl, op, client_id) ==
  IF op.op = SET_CELL THEN ApplySetCell(tbl, op, client_id)
  ELSE IF op.op = ADD_ROW THEN ApplyAddRow(tbl, op, client_id)
  ELSE IF op.op = DELETE_ROW THEN ApplyDeleteRow(tbl, op, client_id)
  ELSE IF op.op = ADD_COLUMN THEN ApplyAddColumn(tbl, op, client_id)
  ELSE IF op.op = DELETE_COLUMN THEN ApplyDeleteColumn(tbl, op, client_id)
  ELSE IF op.op = SET_HEADER THEN ApplySetHeader(tbl, op, client_id)
  ELSE IF op.op = RENAME_TABLE THEN ApplyRenameTable(tbl, op, client_id)
  ELSE IF op.op = DELETE_TABLE THEN RDelete
  ELSE RFalse

\* `if not op_type or not table_id: return False`
OpWellFormed(op) == Truthy(op, "op") /\ Truthy(op, "tableId")

\* ------------------------------------------------------------------ state

VARIABLES
  tables,   \* Store: table `tables`, a function from the ids present to the rows
  events,   \* Store: table `sync_events` in id order
  now,      \* the last reading of the server clock
  req,      \* per client: the push request (POST /api/sync) in flight or answered
  pull,     \* the pull request (GET /api/sync) of the pulling client
  work      \* push requests started plus operations taken up so far

vars == <<tables, events, now, req, pull, work>>

\* ------------------------------------------------------------------ Store

\* the cursor "0"
ZeroCursor == <<"0">>

\* get_table: the Optional row of `tables`
GetTable(table_id) ==
  IF table_id \in DOMAIN tables THEN <<tables[table_id]>> ELSE <<>>

\* create_table: INSERT INTO tables; version takes the column default 1
CreatedTables(table_data) ==
  [id \in DOMAIN tables \cup {table_data.id} |->
     IF id = table_data.id THEN [table_data EXCEPT !.version = 1] ELSE tables[id]]

\* an UPDATE that sets the version and leaves name and data as they are
UpdatedTablesVersionOnly(table_id, table_data) ==
  [tables EXCEPT ![table_id].version = @ + 1]

\* update_table: UPDATE tables SET name, data, version = version + 1 WHERE id
UpdatedTables(table_id, table_data) ==
  [tables EXCEPT ![table_id] =
     [table_data EXCEPT !.id = table_id, !.version = tables[table_id].version + 1]]

\* delete_table: DELETE FROM tables WHERE id
DeletedTables(table_id) ==
  [id \in DOMAIN tables \ {table_id} |-> tables[id]]

\* get_all_tables (the order by updated_at is not modelled: a set)
GetAllTables == {tables[id] : id \in DOMAIN tables}

\* the column constraint `cursor TEXT UNIQUE NOT NULL` of sync_events
CursorTaken(log, cursor) == \E k \in 1..Len(log) : log[k].cursor = cursor

\* the inserted row with an id that does not grow with the log
NewEventFixedId(log, cursor, client_id, operation, ts) ==
  [id |-> 1, cursor |-> cursor, clientId |-> client_id,
   operation |-> operation, serverTs |-> ts]

\* add_sync_event: the inserted row; id is AUTOINCREMENT / SERIAL
NewEvent(log, cursor, client_id, operation, ts) ==
  [id |-> Len(log) + 1, cursor |-> cursor, clientId |-> client_id,
   operation |-> operation, serverTs |-> ts]

\* the INSERT without the UNIQUE constraint on cursor
InsertUnconstrained(log, cursor) == TRUE

\* The INSERT of add_sync_event succeeds iff it keeps `cursor` unique.
InsertAllowed(log, cursor) == ~CursorTaken(log, cursor)

\* SELECT id FROM sync_events WHERE cursor = ?   (a set: empty when not found)
IdOfCursor(log, cursor) == {log[k].id : k \in {j \in 1..Len(log) : log[j].cursor = cursor}}

\* get_events_since that reads from the start of the log when the cursor is
\* not found
GetEventsSinceOrAll(log, cursor, limit) ==
  IF cursor = ZeroCursor \/ IdOfCursor(log, cursor) = {}
  THEN SubSeq(log, 1, Min(limit, Len(log)))
  ELSE LET base == CHOOSE id \in IdOfCursor(log, cursor) :
                     \A other \in IdOfCursor(log, cursor) : id <= other
           rest == SelectSeq(log, LAMBDA e : e.id > base)
       IN SubSeq(rest, 1, Min(limit, Len(rest)))

\* get_events_since with id >= in place of id >
GetEventsSinceInclusive(log, cursor, limit) ==
  IF cursor = ZeroCursor
  THEN SubSeq(log, 1, Min(limit, Len(log)))
  ELSE IF IdOfCursor(log, cursor) = {}
       THEN <<>>
       ELSE LET base == CHOOSE id \in IdOfCursor(log, cursor) :
                          \A other \in IdOfCursor(log, cursor) : id <= other
                rest == SelectSeq(log, LAMBDA e : e.id >= base)
            IN SubSeq(rest, 1, Min(limit, Len(rest)))

\* get_events_since(cursor, limit)
GetEventsSince(log, cursor, limit) ==
  IF cursor = ZeroCursor
  THEN SubSeq(log, 1, Min(limit, Len(log)))
  ELSE IF IdOfCursor(log, cursor) = {}
       THEN <<>>
       ELSE LET base == CHOOSE id \in IdOfCursor(log, cursor) :
                          \A other \in IdOfCursor(log, cursor) : id <= other
                rest == SelectSeq(log, LAMBDA e : e.id > base)
            IN SubSeq(rest, 1, Min(limit, Len(rest)))

\* the cursor of the lowest id instead of the highest
GetOldestCursor(log) == IF log = <<>> THEN ZeroCursor ELSE log[1].cursor

\* get_latest_cursor
GetLatestCursor(log) == IF log = <<>> THEN ZeroCursor ELSE log[Len(log)].cursor

\* --------------------------------------------------------- Sync Coordinator

\* _generate_cursor: f"{epoch_ms}_{sha256(timestamp:client_id:op)[:16]}".
\* The clock counts microseconds; the hash is kept as its preimage, so two
\* cursors are equal exactly when the clock reading, the client and the
\* operation are (the truncated hash is taken to be collision free).
GenerateCursor(t, client_id, operation) ==
  <<t \div 1000, <<t, client_id, operation>>>>

\* keys copied by _event_to_delta from the operation
DeltaKeys ==
  {"op", "tableId", "rowId", "col", "value", "afterRowId", "colIndex", "header", "name"}

\* _event_to_delta (keys whose value is None are left out of the record)
EventToDelta(event) ==
  [k \in (DOMAIN event.operation \cap DeltaKeys) \cup {"serverTs", "by"} |->
     IF k = "serverTs" THEN event.serverTs
     ELSE IF k = "by" THEN event.clientId
     ELSE event.operation[k]]

\* the rows of get_events_since as deltas, the caller's own among them
AllClientChanges(rows, client_id) ==
  [k \in 1..Len(rows) |-> EventToDelta(rows[k])]

\* _get_other_client_changes on the rows returned by get_events_since
OtherClientChanges(rows, client_id) ==
  LET others == SelectSeq(rows, LAMBDA e : e.clientId # client_id)
  IN [k \in 1..Len(others) |-> EventToDelta(others[k])]

\* the conflict entry appended by process_sync
ConflictEntry(op) == [operation |-> op, reason |-> "Failed to apply"]

\* ------------------------------------------------------------ HTTP surface

\* models.Conflict: the fields without a default
ConflictRequired == {"tableId", "localValue", "remoteValue", "resolution"}

\* SyncResponse(...) validates every entry of conflicts as a Conflict
ConflictsValidate(conflicts) ==
  \A k \in 1..Len(conflicts) : ConflictRequired \subseteq DOMAIN conflicts[k]

\* sync_push: the response built from the result of process_sync; a
\* ValidationError raised by SyncResponse(...) is caught by the handler's
\* own except branch.
PushResponse(base_cursor, result) ==
  IF ConflictsValidate(result.conflicts)
  THEN [success |-> TRUE, cursor |-> result.cursor, deltas |-> result.deltas,
        conflicts |-> result.conflicts, error |-> <<>>]
  ELSE [success |-> FALSE, cursor |-> base_cursor, deltas |-> <<>>,
        conflicts |-> <<>>, error |-> <<"ValidationError">>]

\* the error response with the newest cursor of the log in place of the
\* request's baseCursor
PushFailureAtLatest(base_cursor, error) ==
  [success |-> FALSE, cursor |-> GetLatestCursor(events), deltas |-> <<>>,
   conflicts |-> <<>>, error |-> <<error>>]

\* sync_push: the response when process_sync raises
PushFailure(base_cursor, error) ==
  [success |-> FALSE, cursor |-> base_cursor, deltas |-> <<>>,
   conflicts |-> <<>>, error |-> <<error>>]

\* ----------------------------------------------------------------- inputs

\* operation payloads as the clients send them
SetCellOp(table_id, row_id, col, value, ts) ==
  [op |-> SET_CELL, tableId |-> table_id, rowId |-> row_id, col |-> col,
   value |-> value, ts |-> ts]
AddRowOp(table_id, row_id, ts) ==
  [op |-> ADD_ROW, tableId |-> table_id, rowId |-> row_id, ts |-> ts]
AddRowAfterOp(table_id, row_id, after_row_id, ts) ==
  [op |-> ADD_ROW, tableId |-> table_id, rowId |-> row_id,
   afterRowId |-> after_row_id, ts |-> ts]
DeleteRowOp(table_id, row_id, ts) ==
  [op |-> DELETE_ROW, tableId |-> table_id, rowId |-> row_id, ts |-> ts]
AddColumnOp(table_id, ts) ==
  [op |-> ADD_COLUMN, tableId |-> table_id, ts |-> ts]
AddColumnAtOp(table_id, col_index, header, ts) ==
  [op |-> ADD_COLUMN, tableId |-> table_id, colIndex |-> col_index,
   header |-> header, ts |-> ts]
DeleteColumnOp(table_id, col_index, ts) ==
  [op |-> DELETE_COLUMN, tableId |-> table_id, colIndex |-> col_index, ts |-> ts]
SetHeaderOp(table_id, col_index, header, ts) ==
  [op |-> SET_HEADER, tableId |-> table_id, colIndex |-> col_index,
   header |-> header, ts |-> ts]
RenameTableOp(table_id, name, ts) ==
  [op |-> RENAME_TABLE, tableId |-> table_id, name |-> name, ts |-> ts]
DeleteTableOp(table_id, ts) ==
  [op |-> DELETE_TABLE, tableId |-> table_id, ts |-> ts]

\* a row as POST /api/tables stores it (Row.cellMeta defaults to [])
EmptyRow(row_id, n) ==
  [rowId |-> row_id, cells |-> [k \in 1..n |-> ""], cellMeta |-> <<>>]

\* the tables the clients create: one column "A", one empty row "r1"
NewTable(table_id) ==
  [id |-> table_id, name |-> "t", headers |-> <<"A">>,
   rows |-> <<EmptyRow("r1", 1)>>, version |-> 1]

\* two columns, two rows
WideTable(table_id) ==
  [id |-> table_id, name |-> "t", headers |-> <<"A", "B">>,
   rows |-> <<EmptyRow("r1", 2), EmptyRow("r2", 2)>>, version |-> 1]

\* WideTable after setCell(r1, 0, "a", ts=1) of bob
MetaTable(table_id) ==
  [id |-> table_id, name |-> "t", headers |-> <<"A", "B">>,
   rows |-> <<[rowId |-> "r1", cells |-> <<"a", "">>,
               cellMeta |-> <<CellMeta("a", 1, "bob")>>],
              EmptyRow("r2", 2)>>,
   version |-> 1]

\* operations of the concurrent specification
ConcMenu ==
  {SetCellOp("T", "r1", 0, "x", 1), SetCellOp("T", "r9", 0, "x", 1),
   AddColumnOp("T", 1)}

\* operations of the specification with the pulling client
PullMenu == {AddRowOp("T", "r2", 1), AddColumnOp("T", 1)}

\* every kind of operation, with in-range, out-of-range and missing fields
FullMenu ==
  {SetCellOp("T", r, col, v, 1) : r \in {"r1", "r9"}, col \in {-1, 0, 2}, v \in {"x", "y"}}
  \cup {AddRowOp("T", r, 1) : r \in {"r1", "r3", ""}}
  \cup {AddRowAfterOp("T", "r3", a, 1) : a \in {"r1", "r9"}}
  \cup {DeleteRowOp("T", r, 1) : r \in {"r1", "r9"}}
  \cup {AddColumnOp("T", 1)}
  \cup {AddColumnAtOp("T", i, "H", 1) : i \in {-1, 0, 1, 5}}
  \cup {DeleteColumnOp("T", i, 1) : i \in {-1, 0, 1, 5}}
  \cup {SetHeaderOp("T", i, "H", 1) : i \in {-1, 0, 5}}
  \cup {RenameTableOp("T", n, 1) : n \in {"n", ""}}
  \cup {DeleteTableOp("T", 1), SetCellOp("U", "r1", 0, "x", 1),
        [op |-> "sortRows", tableId |-> "T", ts |-> 1],
        [op |-> SET_CELL, rowId |-> "r1", col |-> 0, value |-> "x", ts |-> 1],
        [op |-> SET_CELL, tableId |-> "T", rowId |-> "r1", ts |-> 1],
        [op |-> DELETE_COLUMN, tableId |-> "T", ts |-> 1]}

\* an addRow and a setCell on the row it adds
BatchMenu == {AddRowOp("T", "r2", 1), SetCellOp("T", "r2", 0, "x", 1)}

\* a setCell beyond the headers, and addColumn with every kind of colIndex
ColMenu ==
  {SetCellOp("T", "r1", 2, "x", 1), SetCellOp("T", "r1", 5, "v", 1),
   AddColumnOp("T", 1)}
  \cup {AddColumnAtOp("T", i, "H", 1) : i \in {-1, 0, 1, 5}}

\* setCell at a column, at a column past the row's end and at a negative
\* column, with addColumn and deleteColumn
AlignMenu ==
  {SetCellOp("T", "r1", 0, "x", 1), SetCellOp("T", "r1", 2, "z", 1),
   SetCellOp("T", "r1", -1, "y", 2),
   AddColumnAtOp("T", 0, "H", 1), AddColumnAtOp("T", 1, "H", 1),
   DeleteColumnOp("T", 0, 1), DeleteColumnOp("T", 1, 1)}

\* addRow of one rowId at the end and after a row, and its deleteRow
RowMenu ==
  {AddRowOp("T", "r2", 1), AddRowAfterOp("T", "r2", "r1", 1),
   DeleteRowOp("T", "r2", 1)}

\* setCell operations on one cell, every one with a timestamp above zero
CellMenu ==
  {SetCellOp("T", "r1", 0, v, ts) : v \in {"x", "y"}, ts \in 1..MaxTs}

\* two setCell operations on distinct cells of one table
RaceMenu == {SetCellOp("T", "r1", 0, "x", 1), SetCellOp("T", "r2", 1, "y", 1)}

\* setCell operations on one cell, every timestamp and value
\* the one operation pushed beside the reset of the store
StoreMenu == {AddColumnOp("T", 1)}

LwwMenu ==
  {SetCellOp("T", "r1", 0, v, ts) : v \in {"x", "y"}, ts \in 0..MaxTs}

\* ---------------------------------------------------------------- requests

IdleReq ==
  [pc |-> "idle", base |-> ZeroCursor, ops |-> <<>>, tbl |-> <<>>,
   conflicts |-> <<>>, applied |-> <<>>, out |-> <<>>,
   latest |-> ZeroCursor, result |-> <<>>, resp |-> <<>>]

IdlePull ==
  [pc |-> "idle", since |-> ZeroCursor, rows |-> <<>>, latest |-> ZeroCursor,
   resp |-> <<>>, received |-> <<>>, count |-> 0]

Init ==
  /\ tables = [id \in {} |-> 0]
  /\ events = <<>>
  /\ now = 0
  /\ req = [c \in Clients |-> IdleReq]
  /\ pull = IdlePull
  /\ work = 0

\* no request is between two of its database statements
Quiet ==
  /\ \A c \in Clients : req[c].pc \in {"idle", "done"}
  /\ pull.pc \in {"idle", "done"}

\* the operation process_sync is working on
CurrentOp(c) == req[c].ops[Len(req[c].ops)]

\* the setCell reached the LWW comparison of a row and lost it everywhere
LwwLoses(tbl, op, client_id) ==
  /\ op.op = SET_CELL /\ tbl # <<>> /\ Has(op, "rowId") /\ Has(op, "col")
  /\ SetCellLoop(tbl[1], op, client_id, 1).kind = "false"
  /\ \E i \in 1..Len(tbl[1].rows) :
       LET row == tbl[1].rows[i]
           cell_meta == PadTo(row.cellMeta, op.col, NoMeta)
       IN /\ row.rowId = op.rowId
          /\ InRange(cell_meta, op.col)
          /\ ~ShouldApplyChange(cell_meta[PyPos(cell_meta, op.col)], op.ts, client_id)

\* what the clock may read next
ClockReadings == {t \in {now, now + 1} : t <= MaxClock}

\* POST /api/tables
CreateTable(table_data) ==
  /\ table_data.id \notin DOMAIN tables
  /\ tables' = CreatedTables(table_data)
  /\ UNCHANGED <<events, now, req, pull, work>>

\* The request record process_sync continues with: the one in flight, or a
\* fresh one when POST /api/sync arrives (sync_push calls process_sync, which
\* runs up to its first database statement).  The client sends "0" or the
\* cursor of its previous response as baseCursor.
Entry(c, sequential) ==
  IF req[c].pc = "loop"
  THEN {req[c]}
  ELSE IF req[c].pc \in {"idle", "done"} /\ (sequential => Quiet)
       THEN {[IdleReq EXCEPT !.pc = "loop", !.base = base] :
               base \in {ZeroCursor} \cup {req[c].resp[k].cursor : k \in 1..Len(req[c].resp)}}
       ELSE {}

Arrivals(c) == IF req[c].pc = "loop" THEN 0 ELSE 1

\* the branch without its else: a failed operation is recorded as a conflict
\* and goes on to its event all the same
OutcomeLogsFailures(r, op, success) ==
  LET n == Len(r.out) IN
  IF success
  THEN [r EXCEPT !.pc = "event", !.tbl = <<>>, !.applied = Append(@, op),
                 !.out[n].res = "applied"]
  ELSE [r EXCEPT !.pc = "event", !.tbl = <<>>,
                 !.conflicts = Append(@, ConflictEntry(op)),
                 !.out[n].res = "conflict"]

\* process_sync's branch on the outcome of _apply_operation: an applied
\* operation goes on to its event, a failed one is recorded as a conflict
Outcome(r, op, success) ==
  LET n == Len(r.out) IN
  IF success
  THEN [r EXCEPT !.pc = "event", !.tbl = <<>>, !.applied = Append(@, op),
                 !.out[n].res = "applied"]
  ELSE [r EXCEPT !.pc = "loop", !.tbl = <<>>,
                 !.conflicts = Append(@, ConflictEntry(op)),
                 !.out[n].res = "conflict"]

\* process_sync takes the next operation of the batch; _apply_operation
\* checks it, reads the table (get_table) and runs the _apply_* method up to
\* its database statement.
ApplyOperation(c, op, budget, sequential) ==
  /\ work + Arrivals(c) < budget
  /\ \E r0 \in Entry(c, sequential) :
       LET tbl == IF OpWellFormed(op) THEN GetTable(op.tableId) ELSE <<>>
           r == IF OpWellFormed(op) THEN Dispatch(tbl, op, c) ELSE RFalse
           lww == OpWellFormed(op) /\ LwwLoses(tbl, op, c)
           r1 == [r0 EXCEPT !.ops = Append(@, op),
                            !.out = Append(@, [lww |-> lww, res |-> "pending",
                                               eventId |-> 0])]
       IN req' = [req EXCEPT ![c] =
            IF r.kind \in {"false", "true"}
            THEN Outcome(r1, op, r.kind = "true")
            ELSE [r1 EXCEPT !.pc = r.kind, !.tbl = tbl]]
  /\ work' = work + Arrivals(c) + 1
  /\ UNCHANGED <<tables, events, now, pull>>

\* the write as one transaction with the read: the _apply_* method runs on
\* the table the store holds at the write
WriteTableAtomic(c) ==
  /\ req[c].pc \in {"update", "delete"}
  /\ LET op == CurrentOp(c)
         r == Dispatch(GetTable(op.tableId), op, c)
         found == op.tableId \in DOMAIN tables /\ r.kind \in {"update", "delete"}
     IN /\ tables' = IF ~found THEN tables
                     ELSE IF r.kind = "update"
                          THEN UpdatedTables(op.tableId, r.table)
                          ELSE DeletedTables(op.tableId)
        /\ req' = [req EXCEPT ![c] = Outcome(@, op, found)]
  /\ UNCHANGED <<events, now, pull, work>>

\* the database statement the _apply_* method ends with (update_table, or
\* delete_table for deleteTable), and process_sync's branch on what it returns
WriteTable(c) ==
  /\ req[c].pc \in {"update", "delete"}
  /\ LET op == CurrentOp(c)
         table_id == IF req[c].pc = "update"
                     THEN Dispatch(req[c].tbl, op, c).table.id
                     ELSE op.tableId
         found == table_id \in DOMAIN tables
     IN /\ tables' = IF ~found THEN tables
                     ELSE IF req[c].pc = "update"
                          THEN UpdatedTables(table_id, Dispatch(req[c].tbl, op, c).table)
                          ELSE DeletedTables(table_id)
        /\ req' = [req EXCEPT ![c] = Outcome(@, op, found)]
  /\ UNCHANGED <<events, now, pull, work>>

\* the entry of `out` for an operation whose database statement raised
FaultedOut == [lww |-> FALSE, res |-> "pending", eventId |-> 0, fault |-> TRUE]

\* process_sync takes the next operation and get_table raises (a storage
\* fault): the `except Exception` of _apply_operation returns False
GetTableRaises(c, op, budget, sequential) ==
  /\ work + Arrivals(c) < budget
  /\ OpWellFormed(op)
  /\ \E r0 \in Entry(c, sequential) :
       req' = [req EXCEPT ![c] =
         Outcome([r0 EXCEPT !.ops = Append(@, op), !.out = Append(@, FaultedOut)],
                 op, FALSE)]
  /\ work' = work + Arrivals(c) + 1
  /\ UNCHANGED <<tables, events, now, pull>>

\* update_table or delete_table raises: nothing is written, and the
\* `except Exception` of _apply_operation returns False
WriteTableRaises(c) ==
  /\ req[c].pc \in {"update", "delete"}
  /\ req' = [req EXCEPT ![c] =
       Outcome([@ EXCEPT !.out[Len(@.out)] = FaultedOut], CurrentOp(c), FALSE)]
  /\ UNCHANGED <<tables, events, now, pull, work>>

\* _generate_cursor and the INSERT of add_sync_event; an IntegrityError
\* leaves process_sync and is answered by sync_push
AddSyncEvent(c) ==
  /\ req[c].pc = "event"
  /\ \E t \in ClockReadings :
       LET op == CurrentOp(c)
           cursor == GenerateCursor(t, c, op)
           n == Len(req[c].out)
       IN /\ now' = t
          /\ IF InsertAllowed(events, cursor)
             THEN /\ events' = Append(events, NewEvent(events, cursor, c, op, t))
                  /\ req' = [req EXCEPT ![c] =
                       [@ EXCEPT !.pc = "loop", !.out[n].res = "logged",
                                 !.out[n].eventId = Len(events) + 1]]
             ELSE /\ events' = events
                  /\ req' = [req EXCEPT ![c] =
                       [@ EXCEPT !.pc = "done", !.out[n].res = "raised",
                                 !.resp = <<PushFailure(req[c].base, "IntegrityError")>>]]
  /\ UNCHANGED <<tables, pull, work>>

\* after the loop (at once when the batch is empty): get_latest_cursor
LatestCursor(c, budget, sequential) ==
  /\ work + Arrivals(c) <= budget
  /\ \E r0 \in Entry(c, sequential) :
       req' = [req EXCEPT ![c] =
         [r0 EXCEPT !.pc = "others", !.latest = GetLatestCursor(events)]]
  /\ work' = work + Arrivals(c)
  /\ UNCHANGED <<tables, events, now, pull>>

\* _get_other_client_changes (get_events_since), the return of process_sync
\* and the response of sync_push
OtherChanges(c) ==
  /\ req[c].pc = "others"
  /\ LET result == [cursor |-> req[c].latest,
                    deltas |-> OtherClientChanges(
                                 GetEventsSince(events, req[c].base, EventLimit), c),
                    conflicts |-> req[c].conflicts]
     IN req' = [req EXCEPT ![c] =
          [@ EXCEPT !.pc = "done", !.result = <<result>>,
                    !.resp = <<PushResponse(req[c].base, result)>>]]
  /\ UNCHANGED <<tables, events, now, pull, work>>

\* GET /api/sync?since= arrives; the client pulls from "0" or from the cursor
\* of its previous response
StartPull(sequential, pulls) ==
  /\ pull.pc \in {"idle", "done"}
  /\ pull.count < pulls
  /\ sequential => Quiet
  /\ \E since \in {ZeroCursor} \cup {pull.resp[k].cursor : k \in 1..Len(pull.resp)} :
       pull' = [pull EXCEPT !.pc = "events", !.since = since, !.rows = <<>>,
                            !.count = @ + 1,
                            !.received = IF since = ZeroCursor THEN <<>> ELSE @]
  /\ UNCHANGED <<tables, events, now, req, work>>

\* get_changes_since: get_events_since
PullEvents ==
  /\ pull.pc = "events"
  /\ pull' = [pull EXCEPT !.pc = "latest",
                          !.rows = GetEventsSince(events, pull.since, EventLimit)]
  /\ UNCHANGED <<tables, events, now, req, work>>

\* the response of get_changes_since and sync_pull
PullResponse(rows, latest_cursor, tbls) ==
  [cursor |-> latest_cursor,
   deltas |-> [k \in 1..Len(rows) |-> EventToDelta(rows[k])],
   tables |-> tbls]

\* get_changes_since: get_latest_cursor; answered here unless since is "0"
PullLatest ==
  /\ pull.pc = "latest"
  /\ LET latest_cursor == GetLatestCursor(events) IN
       pull' = IF pull.since = ZeroCursor
               THEN [pull EXCEPT !.pc = "tables", !.latest = latest_cursor]
               ELSE [pull EXCEPT !.pc = "done", !.latest = latest_cursor,
                       !.resp = <<PullResponse(pull.rows, latest_cursor, {})>>,
                       !.received = @ \o [k \in 1..Len(pull.rows) |-> pull.rows[k].id]]
  /\ UNCHANGED <<tables, events, now, req, work>>

\* get_changes_since: get_all_tables when the cursor is "0"
PullTables ==
  /\ pull.pc = "tables"
  /\ pull' = [pull EXCEPT !.pc = "done",
                !.resp = <<PullResponse(pull.rows, pull.latest, GetAllTables)>>,
                !.received = @ \o [k \in 1..Len(pull.rows) |-> pull.rows[k].id]]
  /\ UNCHANGED <<tables, events, now, req, work>>

\* one step of a push request of client c with operations drawn from menu
PushStep(c, menu, sequential, budget) ==
  \/ \E op \in menu : ApplyOperation(c, op, budget, sequential)
  \/ WriteTable(c)
  \/ AddSyncEvent(c)
  \/ LatestCursor(c, budget, sequential)
  \/ OtherChanges(c)

\* one step of the pull request
PullStep(sequential, pulls) ==
  \/ StartPull(sequential, pulls)
  \/ PullEvents
  \/ PullLatest
  \/ PullTables

\* concurrent push requests of the clients
Next ==
  \/ CreateTable(NewTable("T"))
  \/ \E c \in Clients : PushStep(c, ConcMenu, FALSE, MaxWork)

Spec == Init /\ [][Next]_vars

\* one pushing client and the pulling client, concurrently
NextPull ==
  \/ CreateTable(NewTable("T"))
  \/ PushStep("alice", PullMenu, FALSE, MaxPullWork)
  \/ PullStep(FALSE, MaxPulls)

SpecPull == Init /\ [][NextPull]_vars

\* requests served one after the other, every kind of operation
NextSeq ==
  \/ CreateTable(WideTable("T"))
  \/ CreateTable(MetaTable("T"))
  \/ \E c \in Clients : PushStep(c, FullMenu, TRUE, MaxSeqWork)

SpecSeq == Init /\ [][NextSeq]_vars

\* requests served one after the other, setCell operations on one cell
NextLww ==
  \/ CreateTable(NewTable("T"))
  \/ \E c \in Clients : PushStep(c, LwwMenu, TRUE, MaxLwwWork)

SpecLww == Init /\ [][NextLww]_vars

\* DELETE /api/debug/reset (reset): all tables and all events are deleted
\* and the id sequence of sync_events starts again; requests in flight go on
Reset(budget) ==
  /\ work < budget
  /\ tables' = [id \in {} |-> 0]
  /\ events' = <<>>
  /\ work' = work + 1
  /\ UNCHANGED <<now, req, pull>>

\* one pushing client, the pulling client and the reset of the store
NextStore ==
  \/ CreateTable(NewTable("T"))
  \/ PushStep("alice", StoreMenu, FALSE, MaxStoreWork)
  \/ PullStep(FALSE, MaxPulls)
  \/ Reset(MaxStoreWork)

SpecStore == Init /\ [][NextStore]_vars

\* sequential pushes of setCell, addColumn and deleteColumn on a table whose
\* rows were created without cellMeta
NextAlign ==
  \/ CreateTable(WideTable("T"))
  \/ \E c \in Clients : PushStep(c, AlignMenu, TRUE, MaxAlignWork)

SpecAlign == Init /\ [][NextAlign]_vars

\* concurrent pushes of addRow and deleteRow of one rowId
NextRows ==
  \/ CreateTable(NewTable("T"))
  \/ \E c \in Clients : PushStep(c, RowMenu, FALSE, MaxRowWork)

SpecRows == Init /\ [][NextRows]_vars

\* concurrent pushes of setCells with positive timestamps on one cell
NextCell ==
  \/ CreateTable(NewTable("T"))
  \/ \E c \in Clients : PushStep(c, CellMenu, FALSE, MaxCellWork)

SpecCell == Init /\ [][NextCell]_vars

\* concurrent push requests of setCells on distinct cells of one table
NextRace ==
  \/ CreateTable(WideTable("T"))
  \/ \E c \in Clients : PushStep(c, RaceMenu, FALSE, MaxRaceWork)

SpecRace == Init /\ [][NextRace]_vars

\* push requests served by a store whose table statements may raise
NextFault ==
  \/ CreateTable(NewTable("T"))
  \/ \E c \in Clients :
       \/ PushStep(c, ConcMenu, TRUE, MaxFaultWork)
       \/ \E op \in ConcMenu : GetTableRaises(c, op, MaxFaultWork, TRUE)
       \/ WriteTableRaises(c)

SpecFault == Init /\ [][NextFault]_vars

\* requests served one after the other, batches of an addRow and a setCell
NextBatch ==
  \/ CreateTable(NewTable("T"))
  \/ \E c \in Clients : PushStep(c, BatchMenu, TRUE, MaxBatchWork)

SpecBatch == Init /\ [][NextBatch]_vars

\* requests served one after the other, addColumn behind a setCell
NextCol ==
  \/ CreateTable(WideTable("T"))
  \/ CreateTable(MetaTable("T"))
  \/ \E c \in Clients : PushStep(c, ColMenu, TRUE, MaxColWork)

SpecCol == Init /\ [][NextCol]_vars

\* ------------------------------------------------------------------ claims

\* a setCell of a push as a write: who wrote what with which timestamp
Write(c, i) ==
  [by |-> c, ts |-> req[c].ops[i].ts, value |-> req[c].ops[i].value]

\* operation i of c's push reached the LWW comparison of the cell: it was
\* applied, or it lost the comparison
Reached(c, i) ==
  \/ req[c].out[i].res \in {"logged", "raised"}
  \/ req[c].out[i].lww

\* The pairs of writes that are all that was ever pushed onto the cell of a
\* new table: one push of two operations, or one push of one operation by
\* each client (work counts every push and every operation).
TwoWrites ==
  {<<Write(c, 1), Write(c, 2)>> : c \in
     {c \in Clients : /\ work = 3 /\ req[c].pc = "done" /\ Len(req[c].ops) = 2
                      /\ Reached(c, 1) /\ Reached(c, 2)}}
  \cup
  {<<Write(p[1], 1), Write(p[2], 1)>> : p \in
     {p \in Clients \X Clients :
        /\ p[1] # p[2] /\ work = 4
        /\ \A k \in 1..2 : /\ req[p[k]].pc = "done" /\ Len(req[p[k]].ops) = 1
                           /\ Reached(p[k], 1)}}

\* (w2.ts, w2.by) > (w1.ts, w1.by) lexicographically
KeyGreater(w2, w1) ==
  w2.ts > w1.ts \/ (w2.ts = w1.ts /\ StrGreater(w2.by, w1.by))

\* the value the claim lets survive of op1 = w1 and op2 = w2
Winner(w1, w2) == IF KeyGreater(w2, w1) THEN w2.value ELSE w1.value

CellValue == tables["T"].rows[1].cells[1]

\* C1 as stated: whenever exactly two setCell operations were pushed onto a
\* cell without metadata, in whichever order they arrived, the cell holds
\* op2.value iff (op2.ts, op2.clientId) > (op1.ts, op1.clientId), op1.value
\* otherwise, whichever of the two is called op1.
C1_AnyPair ==
  \A p \in TwoWrites :
    CellValue = Winner(p[1], p[2]) /\ CellValue = Winner(p[2], p[1])

\* the two writes have an order the comparison can see: their timestamps
\* are not both 0 (a stored ts of 0 reads as no metadata), and their keys
\* differ unless they write the same value
Ordered(w1, w2) ==
  /\ ~(w1.ts = 0 /\ w2.ts = 0)
  /\ (w1.ts = w2.ts /\ w1.by = w2.by) => w1.value = w2.value

\* C1 amended: of two setCell operations pushed onto a cell without
\* metadata, whose timestamps are not both 0 and whose (ts, clientId) keys
\* differ (or whose values agree), the one with the greater key survives,
\* in either arrival order.
C1_LastWriterWins ==
  \A p \in TwoWrites :
    Ordered(p[1], p[2]) =>
      CellValue = Winner(p[1], p[2]) /\ CellValue = Winner(p[2], p[1])

\* C1 witness: alice and bob wrote different values with the same positive
\* timestamp and bob's value survived
C1_Witness ==
  \E p \in TwoWrites :
    /\ p[1].by = "alice" /\ p[2].by = "bob"
    /\ p[1].ts = p[2].ts /\ p[1].ts > 0
    /\ p[1].value # p[2].value
    /\ CellValue = p[2].value

\* the Applier run over the events log[k..] in id order, on a store of its own
RECURSIVE Replay(_, _, _)
Replay(log, k, store) ==
  IF k > Len(log)
  THEN store
  ELSE LET op == log[k].operation
           tbl == IF op.tableId \in DOMAIN store THEN <<store[op.tableId]>> ELSE <<>>
           r == Dispatch(tbl, op, log[k].clientId)
       IN Replay(log, k + 1,
            IF r.kind = "update" /\ r.table.id \in DOMAIN store
            THEN [store EXCEPT ![r.table.id] = r.table]
            ELSE IF r.kind = "delete"
                 THEN [id \in DOMAIN store \ {op.tableId} |-> store[id]]
                 ELSE store)

\* the tables of a store without their version counters
Contents(store) == [id \in DOMAIN store |-> [store[id] EXCEPT !.version = 0]]

\* C2 as stated: whenever no request is in flight, replaying the event log
\* in id order from an empty store yields the tables the server holds.
C2_ReplayConverges ==
  Quiet => Contents(Replay(events, 1, [id \in {} |-> 0])) = Contents(tables)

\* the position in the log a cursor stands for: 0 for "0"
CursorId(cursor) ==
  IF IdOfCursor(events, cursor) = {}
  THEN 0
  ELSE CHOOSE id \in IdOfCursor(events, cursor) : TRUE

\* C3 as stated: a client that pulls from "0" and then from the cursor of
\* its previous pull has, after every pull, received exactly the events up
\* to the cursor it was handed, each once and in ascending id order (so that
\* pulling on from that cursor neither skips nor repeats an event).
C3_PullsReceiveEveryEvent ==
  pull.pc = "done" =>
    pull.received = [k \in 1..CursorId(pull.resp[1].cursor) |-> k]

\* C4 as stated: a setCell that lost the LWW comparison against the stored
\* cell metadata has no event in the log and is not listed in the conflicts
\* process_sync hands back for the push.
C4_SilentLwwLoss ==
  \A c \in Clients : \A i \in 1..Len(req[c].out) :
    req[c].out[i].lww =>
      /\ req[c].out[i].eventId = 0
      /\ \A k \in 1..Len(req[c].conflicts) :
           req[c].conflicts[k].operation # req[c].ops[i]

\* every row has as many cells as the table has headers
Rect(table) ==
  \A i \in 1..Len(table.rows) : Len(table.rows[i].cells) = Len(table.headers)

\* C5 as stated: the tables start with len(row.cells) = len(headers) in
\* every row, and every table of the store keeps it after every applied
\* operation.
C5_RowsMatchHeaders ==
  \A id \in DOMAIN tables : Rect(tables[id])

\* a setCell whose col lies beyond the headers of the table
PadsBeyondHeaders(op, table) ==
  op.op = SET_CELL /\ op.col >= Len(table.headers)

\* C5 amended: an operation that is applied to a table in which every row
\* has len(headers) cells, and that is not a setCell with col >=
\* len(headers), is written back as a table in which every row has
\* len(headers) cells.
C5_ShapeKept ==
  [][\A c \in Clients :
       (/\ req[c].pc = "update" /\ req'[c].pc = "event"
        /\ Rect(req[c].tbl[1])
        /\ ~PadsBeyondHeaders(CurrentOp(c), req[c].tbl[1]))
       => Rect(tables'[req[c].tbl[1].id])]_vars

\* C5 witness: a deleteColumn was applied to the two-column table and left
\* one header and one cell in every row
C5_Witness ==
  \E c \in Clients :
    /\ req[c].pc = "event" /\ CurrentOp(c).op = DELETE_COLUMN
    /\ "T" \in DOMAIN tables
    /\ Len(tables["T"].headers) = 1
    /\ Len(tables["T"].rows) = 2
    /\ Rect(tables["T"])

\* a snapshot (a set of tables) as a store keyed by table id
StoreOf(snapshot) ==
  [id \in {t.id : t \in snapshot} |-> CHOOSE t \in snapshot : t.id = id]

\* a delta read back as the operation of the client named in `by`; the only
\* timestamp a delta carries is serverTs
DeltaAsOp(delta) ==
  [operation |->
     [k \in (DOMAIN delta \ {"serverTs", "by"}) \cup {"ts"} |->
        IF k = "ts" THEN delta.serverTs ELSE delta[k]],
   clientId |-> delta.by]

\* the client's fold of the deltas over the snapshot, in the order returned
Fold(snapshot, deltas) ==
  Replay([k \in 1..Len(deltas) |-> DeltaAsOp(deltas[k])], 1, StoreOf(snapshot))

\* C6 as stated: for a finished pull with since = "0", folding the returned
\* deltas over the returned snapshot yields the table set the server held
\* when it answered (the snapshot is the last thing the pull reads).
C6_BootstrapFold ==
  (pull.pc = "done" /\ pull.since = ZeroCursor) =>
    Contents(Fold(pull.resp[1].tables, pull.resp[1].deltas))
      = Contents(StoreOf(pull.resp[1].tables))

\* the deltas process_sync returned for c's push, and those of the response
ReturnedDeltas(c) ==
  {req[c].result[k].deltas : k \in 1..Len(req[c].result)}
    \cup {req[c].resp[k].deltas : k \in 1..Len(req[c].resp)}

\* client c's push from baseCursor "0" was answered with success after it
\* had logged operations of its own, and the log holds one event of another
\* client, appended before any of c's
OneEarlierOp(c) ==
  /\ req[c].pc = "done" /\ req[c].base = ZeroCursor
  /\ req[c].resp[1].success
  /\ \E i \in 1..Len(req[c].out) : req[c].out[i].res = "logged"
  /\ events[1].clientId # c
  /\ \A k \in 2..Len(events) : events[k].clientId = c

FailedEntries(c) ==
  LET n == Len(req[c].ops)
      failed == SelectSeq([i \in 1..n |-> i],
                          LAMBDA i : req[c].out[i].res = "conflict")
  IN [k \in 1..Len(failed) |-> ConflictEntry(req[c].ops[failed[k]])]

\* c's push was answered and no statement of it raised
Answered(c) ==
  /\ req[c].pc = "done"
  /\ \A i \in 1..Len(req[c].out) : req[c].out[i].res # "raised"

\* C8 as stated: a push that was processed to its end is answered with
\* success = true and with one {operation, reason: "Failed to apply"} entry
\* per operation that failed to apply, in input order, every other
\* operation of the batch having been applied and logged.
C8_ConflictsNotErrors ==
  \A c \in Clients :
    Answered(c) =>
      /\ req[c].resp[1].success
      /\ req[c].resp[1].conflicts = FailedEntries(c)
      /\ \A i \in 1..Len(req[c].out) : req[c].out[i].res \in {"conflict", "logged"}

\* what became of operation i of c's push, against the log and the push
OneOutcome(c, i) ==
  LET o == req[c].out[i]
      last == i = Len(req[c].out)
  IN /\ o.res = "logged" =>
          /\ o.eventId \in 1..Len(events)
          /\ events[o.eventId].clientId = c
          /\ events[o.eventId].operation = req[c].ops[i]
          /\ \A j \in 1..Len(req[c].out) : j # i => req[c].out[j].eventId # o.eventId
     /\ o.res # "logged" => o.eventId = 0
     /\ o.res = "raised" => last /\ req[c].pc = "done" /\ ~req[c].resp[1].success
     /\ o.res \in {"pending", "applied"} =>
          last /\ req[c].pc \in {"update", "delete", "event"}
     /\ o.res \in {"logged", "conflict"} \/ last

\* the log grows by one event at a time, and only as the event of the
\* operation a push has just applied
AppendsAreOutcomes ==
  events' # events =>
    \E c \in Clients :
      LET n == Len(req[c].out) IN
      /\ req[c].pc = "event"
      /\ Len(events') = Len(events) + 1
      /\ SubSeq(events', 1, Len(events)) = events
      /\ events'[Len(events')].clientId = c
      /\ events'[Len(events')].operation = CurrentOp(c)
      /\ req'[c].out[n].res = "logged"
      /\ req'[c].out[n].eventId = Len(events')
      /\ req[c].out[n].res = "applied"

\* C9: every operation of a push batch has exactly one outcome: it was
\* applied and one event carrying (clientId, operation) was appended for it
\* and for no other operation; or it is listed in conflicts and has no
\* event; or the push ended in an internal error at it.  The conflicts of
\* the push are exactly the operations that were not applied, so none is
\* both logged and reported.
C9_OneOutcomePerOp ==
  /\ [](\A c \in Clients :
          /\ Len(req[c].out) = Len(req[c].ops)
          /\ \A i \in 1..Len(req[c].ops) : OneOutcome(c, i)
          /\ req[c].conflicts = FailedEntries(c))
  /\ [][AppendsAreOutcomes]_vars

\* C9 witness: a push of two operations was answered after its first was
\* recorded as a conflict and its second was applied and logged
C9_Witness ==
  \E c \in Clients :
    /\ req[c].pc = "done" /\ Len(req[c].ops) = 2
    /\ req[c].out[1].res = "conflict"
    /\ req[c].out[2].res = "logged"
    /\ Len(req[c].conflicts) = 1

\* no two events of the log have the same cursor
CursorsDistinct ==
  \A j \in 1..Len(events) : \A k \in 1..Len(events) :
    j # k => events[j].cursor # events[k].cursor

\* a push's add_sync_event with a cursor the log already holds leaves the
\* log as it is and raises; with a new cursor it appends the event
DuplicatesFail ==
  \A c \in Clients :
    (req[c].pc = "event" /\ req'[c] # req[c]) =>
      LET cursor == GenerateCursor(now', c, CurrentOp(c))
          n == Len(req[c].out)
      IN IF CursorTaken(events, cursor)
         THEN events' = events /\ req'[c].out[n].res = "raised"
         ELSE /\ Len(events') = Len(events) + 1
              /\ events'[Len(events')].cursor = cursor
              /\ req'[c].out[n].res = "logged"

\* C10: in every reachable state the cursors of the event log are pairwise
\* different, and an append with a cursor that is already in the log fails
\* without adding an event.
C10_CursorsUnique ==
  []CursorsDistinct /\ [][DuplicatesFail]_vars

\* C10 witness: the log holds events and a push was ended by an append whose
\* cursor was already in the log
C10_Witness ==
  \E c \in Clients :
    /\ req[c].pc = "done" /\ req[c].out # <<>>
    /\ req[c].out[Len(req[c].out)].res = "raised"
    /\ CursorTaken(events, GenerateCursor(now, c, CurrentOp(c)))
    /\ Len(events) >= 2

\* C11 as stated: every call of the cursor generator (a push calls it for
\* each applied operation, right before the INSERT) returns a cursor that
\* differs from every cursor an earlier call returned; the earlier cursors
\* are those of the log (a call whose INSERT failed repeated one of them).
C11_FreshCursor ==
  [][\A c \in Clients :
       (req[c].pc = "event" /\ req'[c] # req[c]) =>
         ~CursorTaken(events, GenerateCursor(now', c, CurrentOp(c)))]_vars

\* the log after the step is the log before it, plus possibly new events at
\* its end, each with an id greater than every id before it
AppendOnly ==
  /\ Len(events') >= Len(events)
  /\ SubSeq(events', 1, Len(events)) = events
  /\ \A k \in 1..Len(events') : \A j \in 1..(k - 1) :
       events'[j].id < events'[k].id

\* C12 as stated: whatever the store does in a step, every event of the log
\* is still there unchanged after it, and an event appended by the step has
\* an id greater than the id of every event appended before.
C12_AppendOnly == [][AppendOnly]_vars

\* the step is reset(): of the actions that count as work it is the one
\* that touches no request
IsReset == work' # work /\ req' = req

\* C12 amended: every step of the store other than reset() keeps the
\* events of the log unchanged and gives an appended event an id greater
\* than every id in the log.
C12_AppendOnlyButReset == [][~IsReset => AppendOnly]_vars

\* C12 witness: two events were appended, with ids 1 and 2, and the push
\* that appended them went on
C12_Witness ==
  /\ Len(events) = 2
  /\ events[1].id = 1 /\ events[2].id = 2
  /\ req["alice"].pc = "loop"
  /\ req["alice"].out[Len(req["alice"].out)].eventId = 2

\* the ids of the events c's push has appended
OwnEventIds(c) ==
  {req[c].out[i].eventId : i \in {j \in 1..Len(req[c].out) : req[c].out[j].res = "logged"}}

\* the cursor stands for a position at or behind every event of c's push
Covers(cursor, c) == \A id \in OwnEventIds(c) : CursorId(cursor) >= id

C14_ContiguousInInputOrder ==
  \A c \in Clients :
    /\ \A i \in 1..Len(req[c].out) : \A j \in 1..Len(req[c].out) :
         (/\ i < j
          /\ req[c].out[i].res = "logged"
          /\ req[c].out[j].res = "logged")
         => req[c].out[i].eventId < req[c].out[j].eventId
    /\ \A a \in OwnEventIds(c) : \A b \in OwnEventIds(c) :
         \A k \in a..b : k \in OwnEventIds(c)

\* a statement of c's push raised
Raised(c) ==
  \E i \in 1..Len(req[c].out) : req[c].out[i].res = "raised"

\* C15: a push whose processing raised is answered with success = false,
\* the baseCursor of the request, no deltas, no conflicts and an error
\* message; every response with success = false has that form.
C15_ErrorResponse ==
  \A c \in Clients :
    /\ Raised(c) => req[c].pc = "done" /\ ~req[c].resp[1].success
    /\ \A k \in 1..Len(req[c].resp) :
         ~req[c].resp[k].success =>
           /\ req[c].resp[k].cursor = req[c].base
           /\ req[c].resp[k].deltas = <<>>
           /\ req[c].resp[k].conflicts = <<>>
           /\ Len(req[c].resp[k].error) = 1

\* C15 witness: add_sync_event raised in a push from "0" while the log held
\* events, and the response carries "0"
C15_Witness ==
  \E c \in Clients :
    /\ Raised(c)
    /\ req[c].base = ZeroCursor /\ events # <<>>
    /\ req[c].resp[1].cursor = ZeroCursor
    /\ req[c].resp[1].error = <<"IntegrityError">>

\* the step in which c's push takes its next operation
TakesOp(c) ==
  /\ work' # work /\ req'[c] # req[c] /\ req'[c].ops # <<>>

\* the operation taken in such a step
TakenOp(c) == req'[c].ops[Len(req'[c].ops)]

\* the addRow operations of the menu
AddRowOps == {op \in FullMenu : op.op = ADD_ROW /\ Truthy(op, "rowId")}

\* on every table of the store, an addRow that adds its row finds it there
\* when applied again
AddRowTwice ==
  \A id \in DOMAIN tables : \A op \in AddRowOps : \A c \in Clients :
    LET once == Dispatch(<<tables[id]>>, op, c) IN
      /\ op.rowId \in RowIds(tables[id]) => once.kind = "true"
      /\ once.kind = "update" =>
           /\ op.rowId \in RowIds(once.table)
           /\ Dispatch(<<once.table>>, op, c).kind = "true"

\* an addRow for a rowId the table holds succeeds without a write to the store
AddRowExisting ==
  \A c \in Clients :
    (/\ TakesOp(c) /\ TakenOp(c).op = ADD_ROW /\ Truthy(TakenOp(c), "rowId")
     /\ TakenOp(c).tableId \in DOMAIN tables
     /\ TakenOp(c).rowId \in RowIds(tables[TakenOp(c).tableId]))
    => /\ req'[c].pc = "event"
       /\ req'[c].applied # <<>>
       /\ req'[c].applied[Len(req'[c].applied)] = TakenOp(c)
       /\ tables' = tables

\* C16: addRow with a rowId the table already holds returns success and
\* leaves the table as it is, and an addRow applied a second time leaves
\* the table of the first application as it is.
C16_AddRowIdempotent == []AddRowTwice /\ [][AddRowExisting]_vars

\* C16 witness: an addRow for the existing row r1 was applied and the table
\* is the one that was created
C16_Witness ==
  \E c \in Clients :
    /\ req[c].pc = "event" /\ CurrentOp(c).op = ADD_ROW
    /\ CurrentOp(c).rowId = "r1"
    /\ "T" \in DOMAIN tables /\ tables["T"] = WideTable("T")

\* c's push is about to write back a deleteRow whose rowId the stored table
\* does not hold
DeletesMissingRow(c) ==
  /\ req[c].pc = "update" /\ req'[c] # req[c]
  /\ CurrentOp(c).op = DELETE_ROW
  /\ CurrentOp(c).tableId \in DOMAIN tables
  /\ CurrentOp(c).rowId \notin RowIds(tables[CurrentOp(c).tableId])

\* C17 as stated: a deleteRow of a rowId the table does not hold succeeds
\* and leaves the stored table as it is, version included.
C17_DeleteMissingRowNoOp ==
  [][\A c \in Clients :
       DeletesMissingRow(c) => req'[c].pc = "event" /\ tables' = tables]_vars

\* the deleteRow operations of the menu
DeleteRowOps == {op \in FullMenu : op.op = DELETE_ROW /\ Truthy(op, "rowId")}

\* on every table of the store, a second application of a deleteRow leaves
\* the table of the first application as it is
DeleteRowTwice ==
  \A id \in DOMAIN tables : \A op \in DeleteRowOps : \A c \in Clients :
    LET once == Dispatch(<<tables[id]>>, op, c) IN
      /\ once.kind = "update"
      /\ Dispatch(<<once.table>>, op, c) = once

\* a deleteRow on an existing table goes on to its write; when the table
\* does not hold the rowId the write succeeds and changes the version only
DeleteRowMissing ==
  \A c \in Clients :
    /\ (/\ TakesOp(c) /\ TakenOp(c).op = DELETE_ROW /\ Truthy(TakenOp(c), "rowId")
        /\ TakenOp(c).tableId \in DOMAIN tables)
       => req'[c].pc = "update"
    /\ DeletesMissingRow(c) =>
         /\ req'[c].pc = "event"
         /\ tables' = [tables EXCEPT ![CurrentOp(c).tableId].version = @ + 1]

\* C17, the part that holds: a deleteRow of a rowId the table does not hold
\* succeeds and leaves headers, rows, cells and metadata as they are, while
\* the write increments the version; a deleteRow applied twice gives the
\* rows that one application gives.
C17_DeleteMissingRowKeepsContent ==
  []DeleteRowTwice /\ [][DeleteRowMissing]_vars

\* C17: the deleteRow of the missing row r9 was written back, and the table
\* is the created one at version 2
C17_Witness ==
  \E c \in Clients :
    /\ req[c].pc = "event" /\ CurrentOp(c).op = DELETE_ROW
    /\ CurrentOp(c).rowId = "r9"
    /\ "T" \in DOMAIN tables
    /\ tables["T"] = [WideTable("T") EXCEPT !.version = 2]

\* the metadata the store holds for the cell a setCell addresses (NoMeta
\* when the table, the row or the entry is missing)
StoredMeta(op) ==
  IF op.tableId \notin DOMAIN tables THEN NoMeta
  ELSE LET table == tables[op.tableId] IN
       IF op.rowId \notin RowIds(table) THEN NoMeta
       ELSE LET cell_meta == table.rows[FirstRow(table, op.rowId)].cellMeta IN
            IF op.col >= 0 /\ op.col < Len(cell_meta)
            THEN cell_meta[op.col + 1]
            ELSE NoMeta

\* c's push takes a setCell whose (ts, clientId) is the stored metadata's
ReDelivers(c) ==
  /\ TakesOp(c) /\ TakenOp(c).op = SET_CELL
  /\ StoredMeta(TakenOp(c)).present
  /\ StoredMeta(TakenOp(c)).ts = TakenOp(c).ts
  /\ StoredMeta(TakenOp(c)).by = c

\* the operation taken is not applied: no write to the table and no event
\* follow for it
NotApplied(c) ==
  /\ req'[c].pc = "loop"
  /\ req'[c].out[Len(req'[c].out)].res = "conflict"
  /\ tables' = tables /\ events' = events

\* C18 as stated: a setCell delivered again, with the (ts, clientId) and
\* the value the store holds for the cell, is not applied: the table and
\* the log stay as they are.
C18_ReDeliveryNoOp ==
  [][\A c \in Clients :
       (ReDelivers(c) /\ StoredMeta(TakenOp(c)).value = TakenOp(c).value)
       => NotApplied(c)]_vars

\* C18 amended: a setCell whose (ts, clientId) equals the stored metadata
\* of the cell, with ts > 0, is not applied, whatever its value.
C18_ReDeliveryNoOpPositiveTs ==
  [][\A c \in Clients :
       (ReDelivers(c) /\ TakenOp(c).ts > 0) => NotApplied(c)]_vars

\* C18 witness: the setCell c's push has just turned down is the one whose
\* value, positive ts and client id the cell's metadata holds
C18_Witness ==
  \E c \in Clients :
    /\ req[c].pc = "loop" /\ req[c].out # <<>>
    /\ req[c].out[Len(req[c].out)].lww
    /\ CurrentOp(c).ts > 0
    /\ StoredMeta(CurrentOp(c)) = CellMeta(CurrentOp(c).value, CurrentOp(c).ts, c)

\* cursors a caller may hold: a string that never was a cursor and every
\* cursor the generator can return for the pushed operation
HeldCursors ==
  {<<"none">>} \cup
  {GenerateCursor(t, c, op) : t \in 0..MaxClock, c \in Clients, op \in StoreMenu}

\* the cursor is neither "0" nor the cursor of an event of the log
NotFound(cursor) == cursor # ZeroCursor /\ ~CursorTaken(events, cursor)

\* on the log as it is, get_events_since returns no row for a cursor that
\* is not found, and a finished pull carries one delta per row it read
EmptyScan ==
  /\ \A cursor \in HeldCursors :
       NotFound(cursor) => GetEventsSince(events, cursor, EventLimit) = <<>>
  /\ pull.pc = "done" => Len(pull.resp[1].deltas) = Len(pull.rows)

\* a pull whose cursor is not found reads no row
PullNotFound ==
  (pull.pc = "events" /\ pull' # pull /\ NotFound(pull.since))
    => pull'.pc = "latest" /\ pull'.rows = <<>>

\* C19: a pull or get_events_since with a cursor that is neither "0" nor
\* the cursor of a logged event is answered, with no delta, whatever the
\* log holds.
C19_UnknownCursorEmpty == []EmptyScan /\ [][PullNotFound]_vars

\* C19 witness: a pull from a cursor that the reset had removed was answered
\* with no delta while the log held an event again
C19_Witness ==
  /\ pull.pc = "done" /\ NotFound(pull.since)
  /\ events # <<>>
  /\ pull.rows = <<>> /\ pull.resp[1].deltas = <<>>

\* on the log as it is, the scan from the latest cursor is empty, and the
\* latest cursor of the empty log is "0"
NothingSinceLatest ==
  /\ GetEventsSince(events, GetLatestCursor(events), EventLimit) = <<>>
  /\ events = <<>> => GetLatestCursor(events) = ZeroCursor
  /\ events # <<>> => GetLatestCursor(events) = events[Len(events)].cursor

\* a pull from the latest cursor of the log reads no row
PullFromLatest ==
  (pull.pc = "events" /\ pull' # pull /\ pull.since = GetLatestCursor(events))
    => pull'.rows = <<>>

\* C20: in every state of the log, get_events_since(get_latest_cursor())
\* returns no event; for the empty log get_latest_cursor() is "0" and
\* get_events_since("0") is empty.
C20_NothingSinceLatest == []NothingSinceLatest /\ [][PullFromLatest]_vars

\* C20 witness: a pull from the cursor of the newest event of a log of two
\* events was answered with no delta
C20_Witness ==
  /\ pull.pc = "done" /\ Len(events) = 2
  /\ pull.since = events[2].cursor
  /\ pull.since = GetLatestCursor(events)
  /\ pull.resp[1].deltas = <<>>

\* the delta carries every field of the event's operation, and serverTs and
\* by as the event has them
CarriesEvent(delta, event) ==
  /\ \A k \in DOMAIN event.operation :
       k \in DOMAIN delta /\ delta[k] = event.operation[k]
  /\ "serverTs" \in DOMAIN delta /\ delta.serverTs = event.serverTs
  /\ "by" \in DOMAIN delta /\ delta.by = event.clientId

\* C21 as stated: the deltas of an answered pull are, one per event read and
\* in the order read, the full operation of the event (ts included) plus
\* serverTs and by = the client of the event.
C21_DeltaCarriesOperation ==
  pull.pc = "done" =>
    /\ Len(pull.resp[1].deltas) = Len(pull.rows)
    /\ \A k \in 1..Len(pull.rows) : CarriesEvent(pull.resp[1].deltas[k], pull.rows[k])

\* the metadata entry cellMeta[col] of the row a setCell addresses, with
\* Python's indexing (NoMeta when the list has no such entry)
MetaAt(op) ==
  LET table == tables[op.tableId]
      cell_meta == table.rows[FirstRow(table, op.rowId)].cellMeta
  IN IF InRange(cell_meta, op.col) THEN cell_meta[PyPos(cell_meta, op.col)] ELSE NoMeta

\* the rule of the claim for a setCell of client c against metadata m
RuleApplies(m, op, c) ==
  \/ ~m.present
  \/ m.ts = 0
  \/ op.ts > m.ts
  \/ op.ts = m.ts /\ StrGreater(c, m.by)

\* c's push takes a setCell with rowId and col whose row the table holds
SetCellOnRow(c) ==
  /\ TakesOp(c) /\ TakenOp(c).op = SET_CELL
  /\ Has(TakenOp(c), "rowId") /\ Has(TakenOp(c), "col")
  /\ OpWellFormed(TakenOp(c))
  /\ TakenOp(c).tableId \in DOMAIN tables
  /\ TakenOp(c).rowId \in RowIds(tables[TakenOp(c).tableId])

\* the write of an applied setCell leaves value and metadata at col
SetCellWritten(c) ==
  (/\ req[c].pc = "update" /\ req'[c] # req[c]
   /\ CurrentOp(c).op = SET_CELL
   /\ CurrentOp(c).tableId \in DOMAIN tables)
  => LET op == CurrentOp(c)
         table == tables'[op.tableId]
         row == table.rows[FirstRow(table, op.rowId)]
     IN /\ req'[c].pc = "event"
        /\ InRange(row.cells, op.col) /\ InRange(row.cellMeta, op.col)
        /\ row.cells[PyPos(row.cells, op.col)] = op.value
        /\ row.cellMeta[PyPos(row.cellMeta, op.col)] = CellMeta(op.value, op.ts, c)

\* C22 as stated: a setCell on an existing row goes on to its write iff the
\* stored metadata of the cell is absent or has ts 0, or op.ts > its ts, or
\* op.ts equals its ts and the client id is greater than its by; the write
\* leaves cells[col] = op.value and cellMeta[col] = {value, ts, by}.
C22_SetCellAppliedIff ==
  [][\A c \in Clients :
       /\ SetCellOnRow(c) =>
            (req'[c].pc = "update" <=> RuleApplies(MetaAt(TakenOp(c)), TakenOp(c), c))
       /\ SetCellWritten(c)]_vars

\* C22, the part that holds: the same for a setCell with col >= 0.
C22_SetCellAppliedIffFromZero ==
  [][\A c \in Clients :
       /\ (SetCellOnRow(c) /\ TakenOp(c).col >= 0) =>
            (req'[c].pc = "update" <=> RuleApplies(MetaAt(TakenOp(c)), TakenOp(c), c))
       /\ SetCellWritten(c)]_vars

\* the store holds the write of c's setCell: value and metadata of its cell
Reflected(op, c) == StoredMeta(op) = CellMeta(op.value, op.ts, c)

\* c and d each pushed one setCell, on distinct cells of one table; both
\* were applied and logged and both pushes were answered with success
BothLogged(c, d) ==
  /\ c # d
  /\ \A e \in {c, d} :
       /\ req[e].pc = "done" /\ Len(req[e].ops) = 1
       /\ req[e].ops[1].op = SET_CELL
       /\ req[e].out[1].res = "logged"
       /\ req[e].resp[1].success /\ req[e].resp[1].conflicts = <<>>
  /\ req[c].ops[1].tableId = req[d].ops[1].tableId
  /\ <<req[c].ops[1].rowId, req[c].ops[1].col>> # <<req[d].ops[1].rowId, req[d].ops[1].col>>

\* update_table stores the table the push read with the one cell changed:
\* every other cell holds after the write what the push had read, whatever
\* the store held before the write
WriteFromPreimage(c) ==
  (/\ req[c].pc = "update" /\ req'[c] # req[c]
   /\ CurrentOp(c).op = SET_CELL
   /\ CurrentOp(c).tableId \in DOMAIN tables)
  => LET op == CurrentOp(c)
         read == req[c].tbl[1]
         written == tables'[op.tableId]
     IN /\ req'[c].pc = "event"
        /\ Len(written.rows) = Len(read.rows)
        /\ \A i \in 1..Len(read.rows) :
             read.rows[i].rowId # op.rowId => written.rows[i] = read.rows[i]

\* C23: under concurrent pushes the write of a setCell stores the table as
\* the push read it with its own cell changed, so a write that landed
\* between the read and the write is overwritten; of two setCells on
\* distinct cells that were both accepted and logged the store holds at
\* least the later written one, and there is an interleaving (the witness)
\* in which it holds only that one.
C23_LostUpdate ==
  /\ [][\A c \in Clients : WriteFromPreimage(c)]_vars
  /\ [](\A c \in Clients : \A d \in Clients :
          BothLogged(c, d) =>
            Reflected(req[c].ops[1], c) \/ Reflected(req[d].ops[1], d))

\* C23 witness: both setCells are in the log, both pushes were answered
\* with success and no conflict, and the table holds d's write and not c's
C23_Witness ==
  \E c \in Clients : \E d \in Clients :
    /\ BothLogged(c, d)
    /\ Len(events) = 2
    /\ Reflected(req[d].ops[1], d)
    /\ ~Reflected(req[c].ops[1], c)
    /\ StoredMeta(req[c].ops[1]) = NoMeta

\* a database statement of operation i of c's push raised
Faulted(c, i) == "fault" \in DOMAIN req[c].out[i]

\* C24 as stated: an operation whose get_table or update_table raised ends
\* the push as an internal error: it is the last operation taken, the push
\* is answered with success = false and an error, and the operation is not
\* recorded as a conflict.
C24_StorageFaultIsInternal ==
  \A c \in Clients : \A i \in 1..Len(req[c].out) :
    Faulted(c, i) =>
      /\ req[c].out[i].res # "conflict"
      /\ \A k \in 1..Len(req[c].conflicts) :
           req[c].conflicts[k].operation # req[c].ops[i]
      /\ i = Len(req[c].out)
      /\ req[c].pc = "done" /\ ~req[c].resp[1].success

\* C24, what happens instead: the operation is recorded as a conflict like
\* any operation that failed to apply, nothing is written or logged for it,
\* and process_sync goes on with the batch and returns without raising.
C24_StorageFaultIsConflict ==
  \A c \in Clients : \A i \in 1..Len(req[c].out) :
    Faulted(c, i) =>
      /\ req[c].out[i].res = "conflict" /\ req[c].out[i].eventId = 0
      /\ \E k \in 1..Len(req[c].conflicts) :
           req[c].conflicts[k] = ConflictEntry(req[c].ops[i])
      /\ (req[c].pc = "done" /\ ~Raised(c)) =>
           /\ req[c].result # <<>>
           /\ req[c].result[1].conflicts = req[c].conflicts

\* the values of OperationType
KnownOps ==
  {SET_CELL, ADD_ROW, DELETE_ROW, ADD_COLUMN, DELETE_COLUMN, SET_HEADER,
   RENAME_TABLE, DELETE_TABLE}

\* the preconditions of the claim that operation op fails on the store as
\* it is: no op or tableId, a table the store does not hold, an unknown op,
\* a colIndex outside the headers, an empty name, a row the table lacks
PreconditionFails(op) ==
  \/ ~OpWellFormed(op)
  \/ op.tableId \notin DOMAIN tables
  \/ op.op \notin KnownOps
  \/ /\ op.op \in {DELETE_COLUMN, SET_HEADER} /\ Has(op, "colIndex")
     /\ (op.colIndex < 0 \/ op.colIndex >= Len(tables[op.tableId].headers))
  \/ op.op = RENAME_TABLE /\ Has(op, "name") /\ op.name = ""
  \/ /\ op.op = SET_CELL /\ Has(op, "rowId") /\ Has(op, "col")
     /\ op.rowId \notin RowIds(tables[op.tableId])

\* the operation c's push was working on is turned down: it is the last
\* entry of the conflicts, and tables and log are as before
Rejected(c, op) ==
  /\ NotApplied(c)
  /\ req'[c].conflicts # <<>>
  /\ req'[c].conflicts[Len(req'[c].conflicts)] = ConflictEntry(op)
  /\ req'[c].applied = IF req[c].pc = "delete" THEN req[c].applied
                       ELSE IF req[c].pc = "loop" THEN req[c].applied ELSE <<>>

\* an operation that fails a precondition is rejected in the step that
\* takes it; a deleteTable goes to its DELETE first, which rejects it when
\* the store does not hold the table
RejectsFailedPrecondition ==
  \A c \in Clients :
    /\ (TakesOp(c) /\ PreconditionFails(TakenOp(c))) =>
         IF OpWellFormed(TakenOp(c)) /\ TakenOp(c).op = DELETE_TABLE
         THEN req'[c].pc = "delete" /\ tables' = tables /\ events' = events
         ELSE Rejected(c, TakenOp(c))
    /\ (/\ req[c].pc = "delete" /\ req'[c] # req[c]
        /\ CurrentOp(c).tableId \notin DOMAIN tables) =>
         Rejected(c, CurrentOp(c))

\* C25: an operation rejected for a failed precondition (deleteColumn or
\* setHeader with colIndex outside 0 <= colIndex < len(headers), renameTable
\* with an empty name, setCell on an absent row, an unknown op, a missing or
\* nonexistent table) is entered in the conflicts of the push, which
\* process_sync returns, and leaves every table and the log unchanged.
C25_RejectedLeavesStore ==
  /\ [][RejectsFailedPrecondition]_vars
  /\ [](\A c \in Clients : \A k \in 1..Len(req[c].result) :
          req[c].result[k].conflicts = FailedEntries(c))

\* C25 witness: a deleteColumn with colIndex 5 on the two-column table was
\* returned as the one conflict of its push; the table is as created and
\* the log is empty
C25_Witness ==
  \E c \in Clients :
    /\ req[c].pc = "done" /\ Len(req[c].ops) = 1
    /\ req[c].ops[1] = DeleteColumnOp("T", 5, 1)
    /\ req[c].result # <<>>
    /\ req[c].result[1].conflicts = <<ConflictEntry(req[c].ops[1])>>
    /\ "T" \in DOMAIN tables /\ tables["T"] = WideTable("T")
    /\ events = <<>>

\* every operation of c's push before the last one taken has its outcome
EarlierOpsFinished(c) ==
  \A i \in 1..(Len(req[c].out) - 1) : req[c].out[i].res \in {"logged", "conflict"}

\* operation n of c's push addresses a row that operation n - 1, applied
\* and logged, added: the addRow names the row, and the row holds no
\* metadata for the cell
AddedJustBefore(c, op, n) ==
  /\ n > 1 /\ n - 1 <= Len(req[c].out)
  /\ req[c].out[n - 1].res = "logged"
  /\ req[c].ops[n - 1].op = ADD_ROW
  /\ req[c].ops[n - 1].tableId = op.tableId /\ req[c].ops[n - 1].rowId = op.rowId
  /\ ~StoredMeta(op).present

\* process_sync takes an operation when the one before it is finished and
\* applies it to the table the store holds then; a setCell on a row that
\* an earlier addRow of the batch added finds the row and goes on to its
\* write, which succeeds
AppliedInTurn ==
  \A c \in Clients :
    /\ TakesOp(c) =>
         /\ EarlierOpsFinished(c) /\ req'[c].ops = Append(
              IF req[c].pc = "loop" THEN req[c].ops ELSE <<>>, TakenOp(c))
         /\ req'[c].pc \in {"update", "delete"} => req'[c].tbl = GetTable(TakenOp(c).tableId)
         /\ (/\ req[c].pc = "loop" /\ TakenOp(c).op = SET_CELL
             /\ AddedJustBefore(c, TakenOp(c), Len(req'[c].ops)))
              => req'[c].pc = "update"
    /\ (/\ req[c].pc = "update" /\ req'[c] # req[c]
        /\ CurrentOp(c).op = SET_CELL
        /\ AddedJustBefore(c, CurrentOp(c), Len(req[c].ops)))
         => /\ req'[c].pc = "event"
            /\ tables'[CurrentOp(c).tableId] =
                 [Dispatch(GetTable(CurrentOp(c).tableId), CurrentOp(c), c).table
                    EXCEPT !.version = tables[CurrentOp(c).tableId].version + 1]

\* the batch [addRow, setCell on that row] of a push whose addRow was
\* applied to the table as created (its event is the first of the log) has
\* no conflict and two events in input order, one after the other; while
\* nothing else has been applied the new row holds the value
BatchSucceeds ==
  \A c \in Clients :
    (/\ req[c].pc = "done" /\ Len(req[c].ops) = 2
     /\ req[c].ops[1].op = ADD_ROW /\ req[c].ops[2].op = SET_CELL
     /\ req[c].ops[2].rowId = req[c].ops[1].rowId
     /\ req[c].out[1].res = "logged" /\ req[c].out[1].eventId = 1
     /\ ~Raised(c))
    => /\ req[c].out[2].res = "logged" /\ req[c].out[2].eventId = 2
       /\ req[c].conflicts = <<>>
       /\ req[c].result[1].conflicts = <<>>
       /\ (Quiet /\ Len(events) = 2) =>
            /\ req[c].ops[1].rowId \in RowIds(tables["T"])
            /\ StoredMeta(req[c].ops[2]) =
                 CellMeta(req[c].ops[2].value, req[c].ops[2].ts, c)

\* C26: with no other request interleaving, process_sync applies the
\* operations of a push one after another in input order, each to the
\* table left by the one before; an addRow followed in the same batch by a
\* setCell on the new row are both applied, with no conflict.
C26_BatchInOrder == [][AppliedInTurn]_vars /\ []BatchSucceeds

\* C26 witness: the push [addRow r2, setCell r2] was answered with no
\* conflict, the log holds its two events in that order, and the row r2 of
\* the table holds the value
C26_Witness ==
  \E c \in Clients :
    /\ req[c].pc = "done"
    /\ req[c].ops = <<AddRowOp("T", "r2", 1), SetCellOp("T", "r2", 0, "x", 1)>>
    /\ req[c].conflicts = <<>>
    /\ Len(events) = 2
    /\ events[1].operation.op = ADD_ROW /\ events[2].operation.op = SET_CELL
    /\ tables["T"].rows[2] =
         [rowId |-> "r2", cells |-> <<"x">>, cellMeta |-> <<CellMeta("x", 1, c)>>]

\* colIndex clamped to [0, n]: out of range means n (append)
Clamped(col_index, n) ==
  IF col_index >= 0 /\ col_index <= n THEN col_index ELSE n

\* the metadata of the cell at Python index i of a row (absent when the
\* list is shorter)
MetaOf(row, i) ==
  IF i >= 0 /\ i < Len(row.cellMeta) THEN row.cellMeta[i + 1] ELSE NoMeta

\* where the cell at index i is after an insertion at index h
Shifted(i, h) == IF i < h THEN i ELSE i + 1

\* table `after` is table `before` with a column inserted at index h: the
\* header there, in every row an empty cell without metadata there, and
\* every other header, cell and metadata entry where it was or one further
ColumnInsertedAt(before, after, h, header) ==
  /\ Len(after.headers) = Len(before.headers) + 1
  /\ after.headers[h + 1] = header
  /\ \A i \in 0..(Len(before.headers) - 1) :
       after.headers[Shifted(i, h) + 1] = before.headers[i + 1]
  /\ Len(after.rows) = Len(before.rows)
  /\ \A k \in 1..Len(before.rows) :
       LET old == before.rows[k]
           new == after.rows[k]
       IN /\ new.rowId = old.rowId
          /\ Len(new.cells) = Len(old.cells) + 1
          /\ h < Len(new.cells) /\ new.cells[h + 1] = ""
          /\ MetaOf(new, h) = NoMeta
          /\ \A i \in 0..(Len(old.cells) - 1) :
               /\ new.cells[Shifted(i, h) + 1] = old.cells[i + 1]
               /\ MetaOf(new, Shifted(i, h)) = MetaOf(old, i)

\* c's push writes back an addColumn to the table as it read it
WritesAddColumn(c) ==
  /\ req[c].pc = "update" /\ req'[c] # req[c]
  /\ CurrentOp(c).op = ADD_COLUMN
  /\ CurrentOp(c).tableId \in DOMAIN tables
  /\ tables[CurrentOp(c).tableId] = req[c].tbl[1]

\* the write of an addColumn is the insertion of a column at the clamped
\* index
InsertsColumn(c) ==
  LET op == CurrentOp(c)
      before == tables[op.tableId]
      n == Len(before.headers)
      col_index == IF Has(op, "colIndex") THEN op.colIndex ELSE n
      header == IF Has(op, "header") THEN op.header ELSE DefaultHeader(col_index)
  IN /\ req'[c].pc = "event"
     /\ ColumnInsertedAt(before, tables'[op.tableId], Clamped(col_index, n), header)

\* C27 as stated: addColumn inserts the header at colIndex clamped to
\* [0, len(headers)] (out of range: append) and, in every row, the ""
\* cell and the absent metadata entry at that same index, every
\* pre-existing header, cell and metadata entry keeping its place relative
\* to the others.
C27_AddColumnSameIndex ==
  [][\A c \in Clients : WritesAddColumn(c) => InsertsColumn(c)]_vars

\* C27, the part that holds: the same on a table in which every row has
\* len(headers) cells.
C27_AddColumnSameIndexRect ==
  [][\A c \in Clients :
       (WritesAddColumn(c) /\ Rect(tables[CurrentOp(c).tableId]))
       => InsertsColumn(c)]_vars

\* the place (1-based) the claim gives the new row of an addRow: behind the
\* row afterRowId when the table holds it, else behind the last row
PlaceOfNewRow(table, op) ==
  IF Truthy(op, "afterRowId") /\ op.afterRowId \in RowIds(table)
  THEN FirstRow(table, op.afterRowId) + 1
  ELSE Len(table.rows) + 1

\* table `after` is table `before` with one new empty row at place p and
\* every other row as it was and in the order it was
RowAddedAt(before, after, p, row_id) ==
  /\ Len(after.rows) = Len(before.rows) + 1
  /\ after.rows[p].rowId = row_id
  /\ after.rows[p].cells = [k \in 1..Len(before.headers) |-> ""]
  /\ after.rows[p].cellMeta = <<>>
  /\ \A k \in 1..Len(before.rows) :
       after.rows[IF k < p THEN k ELSE k + 1] = before.rows[k]
  /\ after.headers = before.headers /\ after.name = before.name

\* an addRow with a rowId the table does not hold goes on to its write, and
\* the write adds the row at its place
AddsRow ==
  \A c \in Clients :
    /\ (/\ TakesOp(c) /\ TakenOp(c).op = ADD_ROW /\ Truthy(TakenOp(c), "rowId")
        /\ OpWellFormed(TakenOp(c))
        /\ TakenOp(c).tableId \in DOMAIN tables
        /\ TakenOp(c).rowId \notin RowIds(tables[TakenOp(c).tableId]))
       => req'[c].pc = "update"
    /\ (/\ req[c].pc = "update" /\ req'[c] # req[c]
        /\ CurrentOp(c).op = ADD_ROW
        /\ CurrentOp(c).tableId \in DOMAIN tables
        /\ tables[CurrentOp(c).tableId] = req[c].tbl[1])
       => LET op == CurrentOp(c)
              before == tables[op.tableId]
          IN /\ req'[c].pc = "event"
             /\ RowAddedAt(before, tables'[op.tableId],
                           PlaceOfNewRow(before, op), op.rowId)

\* C28: addRow with a rowId the table does not hold adds a row of
\* len(headers) empty cells and empty cellMeta, right behind the row
\* afterRowId when the table holds that row, and at the end of rows when
\* afterRowId is absent or not found; the existing rows keep their order.
C28_AddRowPlacement == [][AddsRow]_vars

\* C28 witness: an addRow of r3 behind r1 was written to the table of rows
\* r1, r2, which now reads r1, r3, r2
C28_Witness ==
  \E c \in Clients :
    /\ req[c].pc = "event"
    /\ CurrentOp(c) = AddRowAfterOp("T", "r3", "r1", 1)
    /\ "T" \in DOMAIN tables
    /\ [k \in 1..Len(tables["T"].rows) |-> tables["T"].rows[k].rowId] = <<"r1", "r3", "r2">>
    /\ tables["T"].rows[2] = EmptyRow("r3", 2)

\* list `after` is list `before` padded with x up to length col + 1 and
\* then holding v at index col
PaddedAndSet(before, after, col, x, v) ==
  /\ Len(after) = col + 1
  /\ after[col + 1] = v
  /\ \A i \in 1..Len(before) : after[i] = before[i]
  /\ \A i \in (Len(before) + 1)..col : after[i] = x

\* c's push takes a setCell whose col is at or beyond the end of the cells
\* of its row
SetCellBeyond(c, op) ==
  /\ op.op = SET_CELL /\ Has(op, "rowId") /\ Has(op, "col")
  /\ op.tableId \in DOMAIN tables
  /\ op.rowId \in RowIds(tables[op.tableId])
  /\ op.col >= Len(tables[op.tableId].rows[FirstRow(tables[op.tableId], op.rowId)].cells)

\* such a setCell is applied, and its write pads the row and sets the cell
PadsRow ==
  \A c \in Clients :
    /\ (TakesOp(c) /\ SetCellBeyond(c, TakenOp(c))) => req'[c].pc = "update"
    /\ (/\ req[c].pc = "update" /\ req'[c] # req[c]
        /\ SetCellBeyond(c, CurrentOp(c))
        /\ tables[CurrentOp(c).tableId] = req[c].tbl[1])
       => LET op == CurrentOp(c)
              before == tables[op.tableId]
              after == tables'[op.tableId]
              k == FirstRow(before, op.rowId)
          IN /\ req'[c].pc = "event"
             /\ Len(after.rows) = Len(before.rows)
             /\ \A j \in 1..Len(before.rows) : j # k => after.rows[j] = before.rows[j]
             /\ after.rows[k].rowId = op.rowId
             /\ PaddedAndSet(before.rows[k].cells, after.rows[k].cells,
                             op.col, "", op.value)
             /\ PaddedAndSet(before.rows[k].cellMeta, after.rows[k].cellMeta,
                             op.col, NoMeta, CellMeta(op.value, op.ts, c))
             /\ after.headers = before.headers

\* C29: a setCell with col >= len(cells) on an existing row pads cells with
\* "" and cellMeta with absent entries up to length col + 1 and writes the
\* value at col, the earlier cells staying as they are; on a row of two
\* cells, col = 5 with value "v" leaves ["", "", "", "", "", "v"].
C29_SetCellPads ==
  /\ [][PadsRow]_vars
  /\ [](\A c \in Clients :
          (/\ req[c].pc = "event"
           /\ CurrentOp(c) = SetCellOp("T", "r1", 5, "v", 1)
           /\ Len(req[c].ops) = 1 /\ events = <<>>)
          => /\ tables["T"].rows[1].cells \in
                  {<<"", "", "", "", "", "v">>, <<"a", "", "", "", "", "v">>}
             /\ Len(tables["T"].rows[1].cellMeta) = 6)

\* C29 witness: setCell col 5 "v" was written to the row of two empty
\* cells, which reads ["", "", "", "", "", "v"]
C29_Witness ==
  \E c \in Clients :
    /\ req[c].pc = "event"
    /\ CurrentOp(c) = SetCellOp("T", "r1", 5, "v", 1)
    /\ tables["T"].rows[1].cells = <<"", "", "", "", "", "v">>
    /\ tables["T"].rows[1].cellMeta[6] = CellMeta("v", 1, c)
    /\ tables["T"].rows[2] = EmptyRow("r2", 2)

\* the deltas of the events of clients other than c with lo < id <= hi, in
\* id order
DeltasInRange(c, lo, hi) ==
  LET range == SelectSeq(events, LAMBDA e : e.id > lo /\ e.id <= hi /\ e.clientId # c)
  IN [j \in 1..Len(range) |-> EventToDelta(range[j])]

\* C30 as stated: under any interleaving of the pushes, the deltas
\* process_sync returns for a push are exactly the deltas of the events of
\* other clients with id(baseCursor) < id <= id(returned cursor).
C30_DeltasMatchCursorRange ==
  \A c \in Clients : \A k \in 1..Len(req[c].result) :
    req[c].result[k].deltas =
      DeltasInRange(c, CursorId(req[c].base), CursorId(req[c].result[k].cursor))

\* update_table has stored the table of operation i of c's push: the
\* operation was applied, and it is of a kind that is applied by a write only
Persisted(c, i) ==
  /\ req[c].out[i].res \in {"applied", "logged", "raised"}
  /\ req[c].ops[i].op \in {SET_CELL, ADD_COLUMN}

\* the log holds the event of operation i of c's push
HasOwnEvent(c, i) ==
  /\ req[c].out[i].eventId \in 1..Len(events)
  /\ events[req[c].out[i].eventId].clientId = c
  /\ events[req[c].out[i].eventId].operation = req[c].ops[i]

\* C31 as stated: when a push has been answered, with success or with an
\* error, every operation of it whose table update was stored has its event
\* in the log.
C31_PersistedHasEvent ==
  \A c \in Clients :
    req[c].pc = "done" =>
      \A i \in 1..Len(req[c].out) : Persisted(c, i) => HasOwnEvent(c, i)

\* C31, the part that holds: the same for a push whose process_sync
\* returned; and a stored update without an event of its own is that of the
\* operation at which add_sync_event raised, the last one of the push.
C31_PersistedHasEventOnReturn ==
  \A c \in Clients :
    req[c].pc = "done" =>
      \A i \in 1..Len(req[c].out) :
        Persisted(c, i) =>
          \/ HasOwnEvent(c, i)
          \/ /\ req[c].out[i].res = "raised" /\ i = Len(req[c].out)
             /\ req[c].result = <<>>

\* the metadata stored for the cell (T, r1, 0), and that of the next state
CellKey == StoredMeta(SetCellOp("T", "r1", 0, "", 1))
CellKeyNext == StoredMeta(SetCellOp("T", "r1", 0, "", 1))'

\* the stored key does not decrease in this step
KeyKept ==
  (CellKey.present /\ "T" \in DOMAIN tables') =>
    /\ CellKeyNext.present
    /\ ~KeyGreater(CellKey, CellKeyNext)

\* the accepted setCells are the logged ones; event k has the greatest key
MaximalEvent(k) ==
  \A j \in 1..Len(events) :
    ~KeyGreater([ts |-> events[j].operation.ts, by |-> events[j].clientId],
                [ts |-> events[k].operation.ts, by |-> events[k].clientId])

\* C32 as stated: with setCells of positive timestamps on one cell pushed
\* concurrently, the (ts, by) key stored for the cell never decreases, and
\* when the pushes are over the cell holds the value of the accepted setCell
\* with the greatest (ts, clientId).
C32_KeyNeverDecreases ==
  /\ [][KeyKept]_vars
  /\ []((Quiet /\ events # <<>>) =>
          \E k \in 1..Len(events) :
            /\ MaximalEvent(k)
            /\ CellValue = events[k].operation.value)

\* the table that c's operation read is still the stored one
PreimageCurrent(c) ==
  /\ req[c].tbl # <<>>
  /\ CurrentOp(c).tableId \in DOMAIN tables
  /\ tables[CurrentOp(c).tableId] = req[c].tbl[1]

\* C32, the part that holds: a write whose operation read the table that is
\* still stored does not decrease the key, only a write from a table that
\* was replaced in between can; and the cell always holds the value and the
\* key of one accepted or just written setCell.
C32_KeyKeptFromCurrentPreimage ==
  /\ [][(\A c \in Clients :
           (req[c].pc = "update" /\ req'[c] # req[c]) => PreimageCurrent(c))
        => KeyKept]_vars
  /\ [](CellKey.present =>
          /\ CellValue = CellKey.value
          /\ \/ \E k \in 1..Len(events) :
                  /\ events[k].operation.value = CellKey.value
                  /\ events[k].operation.ts = CellKey.ts
                  /\ events[k].clientId = CellKey.by
             \/ \E c \in Clients :
                  /\ req[c].pc = "event"
                  /\ Reflected(CurrentOp(c), c))

\* the row's cellMeta is no longer than its cells, and every present entry
\* records the value of the cell at its index
RowAligned(row) ==
  /\ Len(row.cellMeta) <= Len(row.cells)
  /\ \A i \in 1..Len(row.cellMeta) :
       (i <= Len(row.cells) /\ row.cellMeta[i].present) =>
         row.cellMeta[i].value = row.cells[i]

\* C33 as stated: from rows created with empty cellMeta, after any sequence
\* of setCell (any integer col), addColumn and deleteColumn, every row has
\* len(cellMeta) <= len(cells) and every present cellMeta[i] has
\* cellMeta[i].value = cells[i].
C33_CellsAndMetaAligned ==
  \A t \in DOMAIN tables :
    \A n \in 1..Len(tables[t].rows) : RowAligned(tables[t].rows[n])

\* a setCell with a negative col is being processed or was logged
NegativeSetCell ==
  \/ \E k \in 1..Len(events) :
       events[k].operation.op = SET_CELL /\ events[k].operation.col < 0
  \/ \E c \in Clients : \E i \in 1..Len(req[c].ops) :
       req[c].ops[i].op = SET_CELL /\ req[c].ops[i].col < 0

\* C33, the part that holds: the rows stay aligned as long as no setCell
\* with a negative col was accepted.
C33_AlignedWithoutNegativeCol ==
  NegativeSetCell \/ C33_CellsAndMetaAligned

\* no two rows of the table have the same rowId
RowIdsUnique(table) ==
  \A i \in 1..Len(table.rows) : \A j \in 1..Len(table.rows) :
    table.rows[i].rowId = table.rows[j].rowId => i = j

\* C34: a table created with pairwise distinct rowIds never comes to hold
\* two rows with the same rowId, whatever operations are pushed and however
\* concurrent pushes interleave, two addRow of one rowId by different
\* clients included.
C34_RowIdsUnique ==
  \A t \in DOMAIN tables : RowIdsUnique(tables[t])


\* C34 witness: alice and bob each pushed an addRow of r2, both read the
\* table before either wrote, both wrote and were logged (the version
\* counts the two writes), and the table holds r1 and one r2
C34_Witness ==
  /\ "T" \in DOMAIN tables
  /\ \A c \in Clients :
       /\ req[c].pc = "done"
       /\ Len(req[c].ops) = 1
       /\ req[c].ops[1].op = ADD_ROW /\ req[c].ops[1].rowId = "r2"
       /\ req[c].out[1].res = "logged"
  /\ Len(events) = 2
  /\ tables["T"].version = 3
  /\ Len(tables["T"].rows) = 2
  /\ RowIds(tables["T"]) = {"r1", "r2"}

====
